---- MODULE Spec2Model ----
(***************************************************************************)
(* Verification model of the command-line-interface service                *)
(* (services/cli), the circular buffer it receives into                    *)
(* (services/include/adi_circ_buf.h) and the read path of the NVM service  *)
(* (services/nvm).                                                         *)
(*                                                                         *)
(* Specifications:                                                         *)
(*   SpecRing  the circular buffer API called sequentially with requests   *)
(*             of any size (ADICircBufWrite / Read / Query);               *)
(*   SpecRx    the receive path of a session: adi_cli_RxCallback in        *)
(*             interrupt context against the foreground CliGetChar, whose  *)
(*             loads and stores are separate steps;                        *)
(*   SpecOut   the two message buffers: the append functions,              *)
(*             adi_cli_FlushMessages, adi_cli_TxCallback, adi_cli_Create;  *)
(*   LiveOut   the flush path of one session with the scheduling that the  *)
(*             flush-until-idle loop and the transport provide;            *)
(*   SpecLine, SpecEdit, SpecIsr                                           *)
(*             adi_cli_GetCmd and the edit line: a scripted line, free     *)
(*             input, and input with both callbacks;                       *)
(*   SpecHist  the command history of cli_history.c;                       *)
(*   SpecDispatch                                                          *)
(*             adi_cli_Dispatch: the table search and the parameter parser;*)
(*   SpecApi   the public functions with NULL arguments and memory sizes   *)
(*             on both sides of the required ones, and adi_cli_Init;       *)
(*   SpecSpace, SpecPrint                                                  *)
(*             adi_cli_GetFreeMessageSpace and adi_cli_PrintMessage with   *)
(*             the appends and the flush;                                  *)
(*   SpecType  adi_cli_GetCmd with printable characters and the one-byte   *)
(*             editing keys;                                               *)
(*   SpecSkip  the circular buffer with ADICircBufFlush;                   *)
(*   SpecCase  adi_cli_Dispatch with built-in names in another letter case;*)
(*   SpecNvm   adi_nvm_Read with single and chunked reads.                 *)
(***************************************************************************)
EXTENDS Integers, Sequences, FiniteSets, TLC

(***************************************************************************)
(* Sizes.  The buffer sizes of the source (RX_BUFFER_SIZE 256,             *)
(* ADI_CLI_MAX_SIZE 10240) are scaled down; every relation the code relies *)
(* on (size > guard of 4, block size > message buffer size) is kept.       *)
(***************************************************************************)
RX_BUFFER_SIZE == 7
ADI_CLI_MAX_SIZE == 3
CLI_MAX_MSG_BLOCKSIZE == 65535
\* Largest nNumBytes / nReqBytes of one circular buffer call.
MaxReq == 3
\* Total number of bytes the circular buffer accepts in one run.
MaxRing == 8
\* Byte values carried through the buffers.
Byte == {0, 1}
\* Byte values of the payloads appended to the message buffers: not 0, which
\* ends a C string and which the buffers are cleared to.
Char == {1, 2}
\* Longest payload of one append call.
MaxLen == 2
\* Total number of bytes the appends of one session store.
MaxPut == 4

EOF == -1

ADI_CLI_STATUS_SUCCESS == 0
ADI_CLI_STATUS_NULL_PTR == 1
ADI_CLI_STATUS_INSUFFICIENT_STATE_MEMORY == 2
ADI_CLI_STATUS_INSUFFICIENT_TEMP_MEMORY == 3
ADI_CLI_STATUS_COMM_ERROR == 4
ADI_CLI_STATUS_BUFFER_FULL == 5
ADI_CLI_STATUS_INVALID_COMMAND == 6
ADI_CLI_STATUS_TRANSMISSION_IN_PROGRESS == 7

\* APP_CFG_CLI_MAX_CMD_LENGTH is set by the application's app_cfg.h; the
\* model keeps it in maxCmd, fixed at the start of a run: CmdLenLine for the
\* scripted session, CmdLenEdit for the session with free input.
CmdLenLine == 8
CmdLenEdit == 4
\* HISTORY_DEPTH (16 in the source), scaled down.
HISTORY_DEPTH == 2
\* Number of bytes the transport delivers in a run with free input.
MaxIn == 4
\* Number of bytes the transport delivers in a run with both callbacks.
MaxIsr == 3
\* Number of history calls between two calls of HistoryFlush.
MaxOps == 5

\* controlArrays indices of cli_private.h
CLI_CTRL_ALERT == 0
CLI_CTRL_BOLD == 1
CLI_CTRL_CR == 2
CLI_CTRL_CLS == 3
CLI_CTRL_KILL == 4
CLI_CTRL_PREV == 5
CLI_CTRL_NEXT == 6
CLI_CTRL_NEWLINE == 7
CLI_CTRL_NORMAL == 8
CLI_CTRL_RESTORE == 10
CLI_CTRL_SAVE == 11

\* States of the escape sequence decoder in CliScanInputChars
CLI_MET_NO_CHAR == 0
CLI_MET_ESC_CHAR == 1
CLI_MET_CTRL_CHAR == 2
CLI_MET_FINAL_CHAR == 3

\* The prompt string of app_cfg.h: "> ".
APP_CFG_CLI_PROMPT == <<62, 32>>

VARIABLES
    \* ADI_CIRC_BUF and the memory behind pBase
    nSize, pBase, nReadIndex, nWriteIndex,
    \* history: bytes of the writes that returned 0, bytes of the reads that
    \* returned 0, and the last circular buffer call with its result
    accepted, delivered, rlast,
    \* foreground CliGetChar / ADICircBufRead: position and locals
    pc, nOffset, nAvail, nResult, dst, chRet,
    \* receive side: ADI_CLI_RX_DATA.rxByte, whether a receive is armed, and
    \* the status adi_cli_RxCallback returned last
    rxByte, rxArmed, rxRet,
    \* ADI_CLI_INFO: cliBuffer0 and cliBuffer1 (as cliBuffer[0], cliBuffer[1]),
    \* bufferInfo.pBufferToWrite (0 or 1: which of the two), bufferInfo.bytesStored,
    \* isTxComplete, and the static bufId of adi_cli_FlushMessages
    cliBuffer, pBufferToWrite, bytesStored, isTxComplete, bufId,
    \* adi_cli_FlushMessages: its local status, and whether this call has
    \* called pfTransmitAsync
    flStatus, flIssued,
    \* the transport: requests accepted and not yet completed, and the buffer
    \* of the latest accepted request
    txOutstanding, txBuf,
    \* history: all bytes handed to pfTransmitAsync, all bytes of the appends
    \* that succeeded, and the last foreground call: its name, the status it
    \* returned, whether it called pfTransmitAsync, the length of its payload
    txLog, putLog, oret,
    \* CLI_PRIVATE: cliString (the memory editLine.pBuffer points to) and the
    \* EditLine indices, the static escSeqState of CliScanInputChars, the
    \* prompt and echo flags, and cliHistData.history
    cliString, indexCur, indexEnd, numCharsToPrint, escSeqState,
    echo, deferPrompt, displayPrompt, userIsTyping, displayCtrlChars, history,
    \* adi_cli_GetCmd: the byte CliGetChar returned to the call in progress,
    \* and the status and command of the last call that returned
    inputChar, cmdRet,
    \* history: the strings passed to HistoryAppend; whether a store has gone
    \* past the end of cliString; the configured APP_CFG_CLI_MAX_CMD_LENGTH
    histCalls, memFault, maxCmd,
    \* history: the calls made to the cli_history.c functions from outside
    \* adi_cli_GetCmd since the last HistoryFlush, each with its argument,
    \* what it returned and the curIndex it found
    hops,
    \* the dispatcher: the arguments of the last adi_cli_Dispatch call,
    \* cliDispatchData.sArgs, the command functions called and the messages
    \* printed by that call, the record DispatchGetCommandDetails returned
    \* (its place in the table, 0 for NULL) and what CliParse returned
    disp,
    \* the caller's side of the session: the ADI_CLI_HANDLE variable phCli
    \* points to, the hUser of the caller's ADI_CLI_CONFIG before and after
    \* adi_cli_Init, pInfo->config.hUser, pInfo->pTempMemory, the hUser passed
    \* in the latest call of pfReceiveAsync or pfTransmitAsync, and the last
    \* call of adi_cli_Create, adi_cli_Init, adi_cli_Dispatch or
    \* adi_cli_PutBuffer with the status it returned, and the caller's
    \* variable adi_cli_GetFreeMessageSpace writes (pFreeSpace)
    api,
    \* the NVM service: the last NvmRead call, with numBytes, the contents of
    \* the caller's pData before and after the call and the status returned
    nvm

ringVars == <<nSize, pBase, nReadIndex, nWriteIndex, accepted, delivered, rlast>>
fgVars == <<pc, nOffset, nAvail, nResult, dst, chRet>>
isrVars == <<rxByte, rxArmed, rxRet>>
outVars == <<cliBuffer, pBufferToWrite, bytesStored, isTxComplete, bufId,
             flStatus, flIssued, txOutstanding, txBuf, txLog, putLog, oret>>
editVars == <<cliString, indexCur, indexEnd, numCharsToPrint, escSeqState,
              echo, deferPrompt, displayPrompt, userIsTyping, displayCtrlChars,
              history, inputChar, cmdRet, histCalls, memFault, maxCmd>>
histVars == <<hops>>
apiVars == <<disp, api>>
nvmVars == <<nvm>>
vars == <<ringVars, fgVars, isrVars, outVars, editVars, histVars, apiVars, nvmVars>>

\* No NvmRead call yet.
NvmNone == [op |-> "none", numBytes |-> 0, orig |-> <<>>, mem |-> <<>>,
            pData |-> <<>>, status |-> 0]

\* The dispatcher before the first adi_cli_Dispatch call: sArgs is zero after
\* the memset of adi_cli_Create.
DispNone ==
    [pCommand |-> <<>>, pDispatchTable |-> <<>>, sArgs |-> [c |-> 0, v |-> <<>>],
     record |-> 0, invoked |-> <<>>, reported |-> <<>>, status |-> 0]

\* The hUser values of the callers' configurations.
Users == {"user1", "user2"}

\* The caller's side after adi_cli_Create(&hCli, ...) and
\* adi_cli_Init(hCli, &config) with config.hUser = "user1" have returned
\* ADI_CLI_STATUS_SUCCESS: adi_cli_Init has stored pInfo in the caller's
\* config.hUser, copied the structure to pInfo->config and called
\* pfReceiveAsync(pInfo->config.hUser, ...).
ApiInitialised ==
    [handle |-> "pInfo", supplied |-> "user1",
     userConfig |-> "pInfo", config |-> "pInfo", passed |-> "pInfo",
     pTempMemory |-> "temp", pFreeSpace |-> 0,
     call |-> [op |-> "Init", null |-> "none", status |-> ADI_CLI_STATUS_SUCCESS]]

\* The sequences over Byte of length 0..n.
BytesUpTo(n) == UNION {[1..k -> Byte] : k \in 0..n}
\* The strings over Char of length 0..n.
CharsUpTo(n) == UNION {[1..k -> Char] : k \in 0..n}

IsPrefix(s, t) == Len(s) <= Len(t) /\ SubSeq(t, 1, Len(s)) = s

(***************************************************************************)
(* adi_circ_buf.h.  The indices are uint32_t and stay in 0..nSize, so the  *)
(* uint32_t differences cast to int32_t are the integer differences.  A    *)
(* negative int32_t cast back to uint32_t is at least 2^31 and compares    *)
(* greater than every request size: U32Ge.                                 *)
(***************************************************************************)
U32Ge(a, n) == IF a < 0 THEN TRUE ELSE a >= n

AvailableNoWrap(r, w, size) == w - r

ADICircBufGetNumBytesAvailable(r, w, size) ==
    LET nDataAvailable == w - r
    IN  IF nDataAvailable < 0 THEN nDataAvailable + size ELSE nDataAvailable

SpaceAvailableGuard3(r, w, size) ==
    LET nSpaceAvailable == r - w - 3
    IN  IF nSpaceAvailable < 0 THEN nSpaceAvailable + size ELSE nSpaceAvailable

ADICircBufGetSpaceAvailable(r, w, size) ==
    LET nSpaceAvailable == r - w - 4
    IN  IF nSpaceAvailable < 0 THEN nSpaceAvailable + size ELSE nSpaceAvailable

\* The copy loop of ADICircBufWrite from source position i on.
RECURSIVE WriteLoop(_, _, _, _, _)
WriteLoop(base, off, src, i, size) ==
    IF i > Len(src)
    THEN [base |-> base, off |-> off]
    ELSE LET o == IF off >= size THEN off - size ELSE off
         IN  WriteLoop([base EXCEPT ![o] = src[i]], o + 1, src, i + 1, size)

\* The copy loop of ADICircBufRead and ADICircBufQuery, n bytes from off.
RECURSIVE ReadLoop(_, _, _, _)
ReadLoop(base, off, n, size) ==
    IF n <= 0
    THEN [data |-> <<>>, off |-> off]
    ELSE LET o == IF off >= size THEN off - size ELSE off
             rest == ReadLoop(base, o + 1, n - 1, size)
         IN  [data |-> <<base[o]>> \o rest.data, off |-> rest.off]

\* A write that stores as many bytes as fit instead of none.
WritePartial(base, r, w, size, src) ==
    LET nSpaceAvailable == ADICircBufGetSpaceAvailable(r, w, size)
        fit == IF U32Ge(nSpaceAvailable, Len(src)) THEN Len(src) ELSE nSpaceAvailable
        done == WriteLoop(base, w, SubSeq(src, 1, fit), 1, size)
    IN  [base |-> done.base, w |-> done.off,
         nResult |-> IF fit = Len(src) THEN 0 ELSE 1]

\* A write that does not look at the free space.
WriteUnchecked(base, r, w, size, src) ==
    LET done == WriteLoop(base, w, src, 1, size)
    IN  [base |-> done.base, w |-> done.off, nResult |-> 0]

\* ADICircBufWrite: the memory, the write index and the result after the call.
ADICircBufWrite(base, r, w, size, src) ==
    LET nSpaceAvailable == ADICircBufGetSpaceAvailable(r, w, size)
    IN  IF U32Ge(nSpaceAvailable, Len(src))
        THEN LET done == WriteLoop(base, w, src, 1, size)
             IN  [base |-> done.base, w |-> done.off, nResult |-> 0]
        ELSE [base |-> base, w |-> w, nResult |-> 1]

\* ADICircBufRead: the bytes stored to pDstAddr, the read index and the
\* result after the call.  The final store writes nOffset back in both
\* branches; in the failing branch nOffset is still the index loaded on entry.
ADICircBufRead(base, r, w, size, n) ==
    LET nNumBytesAvailable == ADICircBufGetNumBytesAvailable(r, w, size)
    IN  IF U32Ge(nNumBytesAvailable, n)
        THEN LET done == ReadLoop(base, r, n, size)
             IN  [data |-> done.data, r |-> done.off, nResult |-> 0]
        ELSE [data |-> <<>>, r |-> r, nResult |-> 1]

\* ADICircBufQuery: as ADICircBufRead without the store to nReadIndex.
ADICircBufQuery(base, r, w, size, n) ==
    LET nNumBytesAvailable == ADICircBufGetNumBytesAvailable(r, w, size)
    IN  IF U32Ge(nNumBytesAvailable, n)
        THEN [data |-> ReadLoop(base, r, n, size).data, r |-> r, nResult |-> 0]
        ELSE [data |-> <<>>, r |-> r, nResult |-> 1]

\* The bytes between the read index and the write index, oldest first.
Stored == ReadLoop(pBase, nReadIndex,
                   ADICircBufGetNumBytesAvailable(nReadIndex, nWriteIndex, nSize),
                   nSize).data

(***************************************************************************)
(* InitCircBuff after the memset of adi_cli_Create.                        *)
(***************************************************************************)
InitCircBuff(size) ==
    /\ nSize = size
    /\ pBase = [i \in 0..(size - 1) |-> 0]
    /\ nReadIndex = 0
    /\ nWriteIndex = 0
    /\ accepted = <<>>
    /\ delivered = <<>>
    /\ rlast = [op |-> "none", n |-> 0, nResult |-> 0, data |-> <<>>]

FgIdle ==
    /\ pc = "idle"
    /\ nOffset = 0
    /\ nAvail = 0
    /\ nResult = 0
    /\ dst = 0
    /\ chRet = 0

IsrInit ==
    /\ rxByte = 0
    /\ rxArmed = TRUE
    /\ rxRet = ADI_CLI_STATUS_SUCCESS

\* IntialiseStateData after the memset of adi_cli_Create; bufId is the static
\* initialiser of adi_cli_FlushMessages.
IntialiseStateData ==
    /\ cliBuffer = [b \in {0, 1} |-> [i \in 0..(ADI_CLI_MAX_SIZE - 1) |-> 0]]
    /\ pBufferToWrite = 0
    /\ bytesStored = 0
    /\ isTxComplete = 1
    /\ bufId = 0
    /\ flStatus = ADI_CLI_STATUS_SUCCESS
    /\ flIssued = FALSE
    /\ txOutstanding = 0
    /\ txBuf = 0
    /\ txLog = <<>>
    /\ putLog = <<>>
    /\ oret = [op |-> "Create", status |-> ADI_CLI_STATUS_SUCCESS, tx |-> FALSE, len |-> 0]

\* The CLI_PRIVATE fields after the memset of adi_cli_Create and
\* IntialiseStateData, for a build with APP_CFG_CLI_MAX_CMD_LENGTH = len;
\* escSeqState is the static initialiser of CliScanInputChars.
EditCreated(len) ==
    /\ maxCmd = len
    /\ cliString = [i \in 0..(len - 1) |-> 0]
    /\ indexCur = 0
    /\ indexEnd = 0
    /\ numCharsToPrint = 0
    /\ escSeqState = 0
    /\ echo = TRUE
    /\ deferPrompt = FALSE
    /\ displayPrompt = FALSE
    /\ userIsTyping = FALSE
    /\ displayCtrlChars = TRUE
    /\ history = [list |-> [i \in 0..(HISTORY_DEPTH - 1) |-> <<>>],
                  headIndex |-> 0, tailIndex |-> 0, curIndex |-> 0]
    /\ inputChar = EOF
    /\ cmdRet = [status |-> ADI_CLI_STATUS_SUCCESS, cmd |-> <<>>]
    /\ histCalls = <<>>
    /\ memFault = FALSE
    /\ hops = <<>>
    /\ disp = DispNone
    /\ api = ApiInitialised
    /\ nvm = NvmNone

(***************************************************************************)
(* SpecRing: sequential calls of the circular buffer API.                  *)
(***************************************************************************)
RingSizes == {RX_BUFFER_SIZE - 2, RX_BUFFER_SIZE}

InitRing ==
    /\ \E size \in RingSizes : InitCircBuff(size)
    /\ FgIdle
    /\ IsrInit
    /\ IntialiseStateData
    /\ EditCreated(CmdLenEdit)

RingWrite(src) ==
    /\ Len(accepted) + Len(src) <= MaxRing
    /\ LET res == ADICircBufWrite(pBase, nReadIndex, nWriteIndex, nSize, src)
       IN  /\ pBase' = res.base
           /\ nWriteIndex' = res.w
           /\ accepted' = IF res.nResult = 0 THEN accepted \o src ELSE accepted
           /\ rlast' = [op |-> "Write", n |-> Len(src), nResult |-> res.nResult,
                        data |-> <<>>]
    /\ UNCHANGED <<nSize, nReadIndex, delivered, fgVars, isrVars, outVars, editVars, histVars, apiVars, nvmVars>>

RingRead(n) ==
    /\ LET res == ADICircBufRead(pBase, nReadIndex, nWriteIndex, nSize, n)
       IN  /\ nReadIndex' = res.r
           /\ delivered' = IF res.nResult = 0 THEN delivered \o res.data ELSE delivered
           /\ rlast' = [op |-> "Read", n |-> n, nResult |-> res.nResult,
                        data |-> res.data]
    /\ UNCHANGED <<nSize, pBase, nWriteIndex, accepted, fgVars, isrVars, outVars, editVars, histVars, apiVars, nvmVars>>

RingQuery(n) ==
    /\ LET res == ADICircBufQuery(pBase, nReadIndex, nWriteIndex, nSize, n)
       IN  /\ nReadIndex' = res.r
           /\ rlast' = [op |-> "Query", n |-> n, nResult |-> res.nResult,
                        data |-> res.data]
    /\ UNCHANGED <<nSize, pBase, nWriteIndex, accepted, delivered, fgVars, isrVars, outVars, editVars, histVars, apiVars, nvmVars>>

NextRing ==
    \/ \E src \in BytesUpTo(MaxReq) : RingWrite(src)
    \/ \E n \in 0..MaxReq : RingRead(n)
    \/ \E n \in 0..MaxReq : RingQuery(n)

SpecRing == InitRing /\ [][NextRing]_vars

\* C2: the bytes delivered by successful reads are the bytes of the successful
\* writes in the same order, and every accepted byte not yet delivered is
\* still stored between the indices (also across index wrap-around).
C2_Fifo == accepted = delivered \o Stored

\* A read of two or more bytes that crossed the end of a buffer whose size is
\* not a power of two.
C2_Witness ==
    /\ nSize = RX_BUFFER_SIZE
    /\ rlast.op = "Read" /\ rlast.nResult = 0 /\ rlast.n >= 2
    /\ nReadIndex < rlast.n
    /\ Len(delivered) > nSize

\* C3: available + free = nSize - 4, and available never exceeds nSize - 4.
C3_AvailPlusFree ==
    LET avail == ADICircBufGetNumBytesAvailable(nReadIndex, nWriteIndex, nSize)
        space == ADICircBufGetSpaceAvailable(nReadIndex, nWriteIndex, nSize)
    IN  /\ avail + space = nSize - 4
        /\ avail >= 0 /\ avail <= nSize - 4

\* The buffer is full and the write index has wrapped behind the read index.
C3_Witness ==
    /\ nWriteIndex < nReadIndex
    /\ ADICircBufGetNumBytesAvailable(nReadIndex, nWriteIndex, nSize) = nSize - 4
    /\ ADICircBufGetSpaceAvailable(nReadIndex, nWriteIndex, nSize) = 0

\* C4: a write of n bytes with fewer than n free bytes, and a read or query of
\* n bytes with fewer than n available bytes, return 1 and leave both indices
\* and the stored bytes unchanged; a query never changes the read index.
C4_AllOrNothing ==
    [][LET avail == ADICircBufGetNumBytesAvailable(nReadIndex, nWriteIndex, nSize)
           space == ADICircBufGetSpaceAvailable(nReadIndex, nWriteIndex, nSize)
       IN  /\ (rlast'.op = "Write" /\ space < rlast'.n)
                => (rlast'.nResult = 1 /\ UNCHANGED <<nReadIndex, nWriteIndex, pBase>>)
           /\ (rlast'.op \in {"Read", "Query"} /\ avail < rlast'.n)
                => (/\ rlast'.nResult = 1
                    /\ rlast'.data = <<>>
                    /\ UNCHANGED <<nReadIndex, nWriteIndex, pBase>>)
           /\ rlast'.op = "Query"
                => UNCHANGED <<nReadIndex, nWriteIndex, pBase>>]_vars

\* A write refused while the buffer holds bytes and still has some room.
C4_Witness ==
    /\ rlast.op = "Write" /\ rlast.nResult = 1
    /\ ADICircBufGetNumBytesAvailable(nReadIndex, nWriteIndex, nSize) > 0
    /\ ADICircBufGetSpaceAvailable(nReadIndex, nWriteIndex, nSize) > 0

(***************************************************************************)
(* SpecRx: the receive path of one session.  adi_cli_RxCallback runs in    *)
(* interrupt context to completion; the foreground CliGetChar runs         *)
(* ADICircBufRead(pRxBuff, &ret, 1) load by load and store by store, and   *)
(* the callback may run between any two of its steps.                      *)
(***************************************************************************)
InitRx ==
    /\ InitCircBuff(RX_BUFFER_SIZE)
    /\ FgIdle
    /\ IsrInit
    /\ IntialiseStateData
    /\ EditCreated(CmdLenEdit)

\* The receive hardware has stored b in rxByte and raised the interrupt; st
\* is what pfReceiveAsync returns when the callback arms the next receive.
adi_cli_RxCallback(b, st) ==
    /\ rxArmed
    /\ rxByte' = b
    /\ LET res == ADICircBufWrite(pBase, nReadIndex, nWriteIndex, nSize, <<b>>)
       IN  /\ pBase' = res.base
           /\ nWriteIndex' = res.w
           /\ accepted' = IF res.nResult = 0 THEN Append(accepted, b) ELSE accepted
           /\ rlast' = [op |-> "Write", n |-> 1, nResult |-> res.nResult, data |-> <<>>]
    /\ rxArmed' = (st = 0)
    /\ rxRet' = IF st # 0 THEN ADI_CLI_STATUS_COMM_ERROR ELSE ADI_CLI_STATUS_SUCCESS
    /\ api' = [api EXCEPT !.passed = api.config]
    /\ UNCHANGED <<nSize, nReadIndex, delivered, fgVars, outVars, editVars, histVars, disp, nvmVars>>

\* CliGetChar: int32_t ret = 0, then ADICircBufRead loads nReadIndex.
GetCharEnter ==
    /\ pc = "idle"
    /\ pc' = "rd_avail"
    /\ dst' = 0
    /\ nOffset' = nReadIndex
    /\ UNCHANGED <<nAvail, nResult, chRet, ringVars, isrVars, outVars, editVars, histVars, apiVars, nvmVars>>

\* ADICircBufGetNumBytesAvailable inside ADICircBufRead.
GetCharAvail ==
    /\ pc = "rd_avail"
    /\ pc' = "rd_copy"
    /\ nAvail' = ADICircBufGetNumBytesAvailable(nReadIndex, nWriteIndex, nSize)
    /\ UNCHANGED <<nOffset, nResult, dst, chRet, ringVars, isrVars, outVars, editVars, histVars, apiVars, nvmVars>>

\* The test of the available count and the copy loop for one byte.
GetCharCopy ==
    /\ pc = "rd_copy"
    /\ pc' = "rd_commit"
    /\ IF U32Ge(nAvail, 1)
       THEN LET done == ReadLoop(pBase, nOffset, 1, nSize)
            IN  /\ dst' = done.data[1]
                /\ nOffset' = done.off
                /\ nResult' = 0
       ELSE /\ nResult' = 1
            /\ UNCHANGED <<dst, nOffset>>
    /\ UNCHANGED <<nAvail, chRet, ringVars, isrVars, outVars, editVars, histVars, apiVars, nvmVars>>

\* The store to nReadIndex, and CliGetChar's return value.
GetCharReturn ==
    /\ pc = "rd_commit"
    /\ pc' = "idle"
    /\ nReadIndex' = nOffset
    /\ chRet' = IF nResult = 1 THEN EOF ELSE dst
    /\ delivered' = IF nResult = 0 THEN Append(delivered, dst) ELSE delivered
    /\ rlast' = [op |-> "Read", n |-> 1, nResult |-> nResult,
                 data |-> IF nResult = 0 THEN <<dst>> ELSE <<>>]
    /\ UNCHANGED <<nSize, pBase, nWriteIndex, accepted,
                   nOffset, nAvail, nResult, dst, isrVars, outVars, editVars, histVars, apiVars, nvmVars>>

CliGetChar == GetCharEnter \/ GetCharAvail \/ GetCharCopy \/ GetCharReturn

NextRx ==
    \/ \E b \in Byte, st \in {0, 1} :
           Len(accepted) < MaxRing /\ adi_cli_RxCallback(b, st)
    \/ CliGetChar

SpecRx == InitRx /\ [][NextRx]_vars

\* C1: with the receive callback preempting the foreground read between any
\* two of its steps, the bytes returned by successful reads followed by the
\* bytes still stored are exactly the bytes the writes accepted, in order; the
\* write index and the memory change only in the callback, the read index only
\* in the foreground's final store.
C1_RxFifo ==
    /\ [](accepted = delivered \o Stored)
    /\ [][/\ (nWriteIndex' # nWriteIndex \/ pBase' # pBase) => pc' = pc
          /\ nReadIndex' # nReadIndex => (pc = "rd_commit" /\ pc' = "idle")]_vars

\* A successful foreground read during which the callback stored another
\* byte, after the indices have wrapped.
C1_Witness ==
    /\ pc = "rd_commit" /\ nResult = 0
    /\ ADICircBufGetNumBytesAvailable(nReadIndex, nWriteIndex, nSize) > nAvail
    /\ nWriteIndex < nReadIndex

(***************************************************************************)
(* The message buffers.  An append function is modelled by an operator     *)
(* from the filling buffer, bytesStored and the payload to the buffer,     *)
(* bytesStored and the int32_t status after the call.                      *)
(***************************************************************************)
U16(x) == x % 65536

\* memcpy(&buf[at], src, n) for a source held as a sequence.
Memcpy(buf, at, src, n) ==
    [i \in DOMAIN buf |-> IF at <= i /\ i < at + n THEN src[i - at + 1] ELSE buf[i]]

\* The first n bytes of a buffer as a sequence.
Payload(buf, n) == [i \in 1..n |-> buf[i - 1]]

PutCharOffByOne(buf, stored, inputchar) ==
    IF (stored + 1) <= ADI_CLI_MAX_SIZE
    THEN [buf |-> Memcpy(buf, stored, <<inputchar>>, 1), stored |-> stored + 1,
          status |-> 0]
    ELSE [buf |-> buf, stored |-> stored, status |-> -1]

CliPutChar(buf, stored, inputchar) ==
    IF (stored + 1) < ADI_CLI_MAX_SIZE
    THEN [buf |-> Memcpy(buf, stored, <<inputchar>>, 1), stored |-> stored + 1,
          status |-> 0]
    ELSE [buf |-> buf, stored |-> stored, status |-> -1]

\* A string append that copies to the start of the buffer.
PutStringAtStart(buf, stored, pString) ==
    LET length == U16(Len(pString))
    IN  IF (stored + length) < ADI_CLI_MAX_SIZE
        THEN [buf |-> Memcpy(buf, 0, pString, length), stored |-> stored + length,
              status |-> 0]
        ELSE [buf |-> buf, stored |-> stored, status |-> -1]

\* uint16_t length = strlen(pString)
CliPutString(buf, stored, pString) ==
    LET length == U16(Len(pString))
    IN  IF (stored + length) < ADI_CLI_MAX_SIZE
        THEN [buf |-> Memcpy(buf, stored, pString, length), stored |-> stored + length,
              status |-> 0]
        ELSE [buf |-> buf, stored |-> stored, status |-> -1]

\* The while loop of CliPutBuffer; index and readIndex are uint16_t.
RECURSIVE PutBufferLoop(_, _, _, _, _, _)
PutBufferLoop(buf, stored, pBuffer, length, index, readIndex) ==
    IF ~(index < length)
    THEN [buf |-> buf, stored |-> stored]
    ELSE LET rest == length - readIndex
             numBytesToSend == IF rest > CLI_MAX_MSG_BLOCKSIZE
                               THEN CLI_MAX_MSG_BLOCKSIZE ELSE rest
             index2 == U16(index + numBytesToSend)
         IN  PutBufferLoop(
                 Memcpy(buf, stored,
                        SubSeq(pBuffer, readIndex + 1, readIndex + numBytesToSend),
                        numBytesToSend),
                 stored + numBytesToSend, pBuffer, length, index2,
                 U16(readIndex + index2))

CliPutBuffer(buf, stored, pBuffer, length) ==
    IF (stored + length) < ADI_CLI_MAX_SIZE
    THEN LET done == PutBufferLoop(buf, stored, pBuffer, length, 0, 0)
         IN  [buf |-> done.buf, stored |-> done.stored, status |-> 0]
    ELSE [buf |-> buf, stored |-> stored, status |-> -1]

CopyToBuffer(buf, stored, pMessage) ==
    LET space == ADI_CLI_MAX_SIZE - stored - 1
        bytesToWrite == Len(pMessage)
    IN  IF space >= bytesToWrite
        THEN [buf |-> Memcpy(buf, stored, pMessage, bytesToWrite),
              stored |-> stored + bytesToWrite, status |-> 0]
        ELSE [buf |-> buf, stored |-> stored, status |-> 1]

\* The effect of one append call on the session: res is the result of the
\* append function, payload the bytes it was given, status what the public
\* function returns.
StoreAppend(op, res, payload, status) ==
    /\ pc = "idle"
    /\ Len(putLog) + Len(payload) <= MaxPut \/ res.status # 0
    /\ cliBuffer' = [cliBuffer EXCEPT ![pBufferToWrite] = res.buf]
    /\ bytesStored' = res.stored
    /\ putLog' = IF res.status = 0 THEN putLog \o payload ELSE putLog
    /\ oret' = [op |-> op, status |-> status, tx |-> FALSE, len |-> Len(payload)]
    /\ UNCHANGED <<pBufferToWrite, isTxComplete, bufId, flStatus, flIssued,
                   txOutstanding, txBuf, txLog>>
    /\ UNCHANGED <<ringVars, fgVars, isrVars, editVars, histVars, apiVars, nvmVars>>

adi_cli_PutChar(inputchar) ==
    LET res == CliPutChar(cliBuffer[pBufferToWrite], bytesStored, inputchar)
    IN  StoreAppend("PutChar", res, <<inputchar>>,
                    IF res.status # ADI_CLI_STATUS_SUCCESS
                    THEN ADI_CLI_STATUS_BUFFER_FULL ELSE res.status)

adi_cli_PutString(pStr) ==
    LET res == CliPutString(cliBuffer[pBufferToWrite], bytesStored, pStr)
    IN  StoreAppend("PutString", res, pStr,
                    IF res.status # ADI_CLI_STATUS_SUCCESS
                    THEN ADI_CLI_STATUS_BUFFER_FULL ELSE ADI_CLI_STATUS_SUCCESS)

adi_cli_PutBuffer(pData) ==
    LET res == CliPutBuffer(cliBuffer[pBufferToWrite], bytesStored, pData, Len(pData))
    IN  StoreAppend("PutBuffer", res, pData,
                    IF res.status # 0
                    THEN ADI_CLI_STATUS_BUFFER_FULL ELSE ADI_CLI_STATUS_SUCCESS)

\* adi_cli_PrintMessage("RAW", ...) with the formatted text pMsgString.
adi_cli_PrintMessageRaw(pMsgString) ==
    LET res == CopyToBuffer(cliBuffer[pBufferToWrite], bytesStored, pMsgString)
    IN  StoreAppend("PrintMessage", res, pMsgString, res.status)

AppendOps == {"PutChar", "PutString", "PutBuffer", "PrintMessage"}

(***************************************************************************)
(* adi_cli_FlushMessages.  adi_cli_TxCallback runs in interrupt context    *)
(* and writes isTxComplete only, which the function reads in its first     *)
(* test and again in its last test: FlushBegin is the function up to the   *)
(* last test, FlushEnd the last test and the return.                       *)
(***************************************************************************)
FlushMayTransmitAlways(stored, txComplete) == stored > 0

FlushMayTransmit(stored, txComplete) == (stored > 0) /\ (txComplete = 1)

FlushResultStoredOnly(status, stored, txComplete) ==
    IF stored > 0 THEN ADI_CLI_STATUS_TRANSMISSION_IN_PROGRESS ELSE status

FlushResult(status, stored, txComplete) ==
    IF (txComplete = 0) \/ (stored > 0)
    THEN ADI_CLI_STATUS_TRANSMISSION_IN_PROGRESS
    ELSE status

\* st is what pfTransmitAsync returns: 0 when the transport takes the request.
FlushBegin(st) ==
    /\ pc = "idle"
    /\ pc' = "fl_check"
    /\ IF FlushMayTransmit(bytesStored, isTxComplete)
       THEN /\ isTxComplete' = 0
            /\ flStatus' = st
            /\ flIssued' = TRUE
            /\ txLog' = txLog \o Payload(cliBuffer[pBufferToWrite], bytesStored)
            /\ IF st = 0
               THEN /\ txOutstanding' = txOutstanding + 1
                    /\ txBuf' = pBufferToWrite
               ELSE UNCHANGED <<txOutstanding, txBuf>>
            /\ pBufferToWrite' = IF bufId = 0 THEN 1 ELSE 0
            /\ bufId' = 1 - bufId
            /\ bytesStored' = 0
            /\ api' = [api EXCEPT !.passed = api.config]
       ELSE /\ flStatus' = ADI_CLI_STATUS_SUCCESS
            /\ flIssued' = FALSE
            /\ UNCHANGED <<isTxComplete, txLog, txOutstanding, txBuf,
                           pBufferToWrite, bufId, bytesStored, api>>
    /\ UNCHANGED <<cliBuffer, putLog, oret>>
    /\ UNCHANGED <<ringVars, nOffset, nAvail, nResult, dst, chRet, isrVars, editVars, histVars, disp, nvmVars>>

FlushEnd ==
    /\ pc = "fl_check"
    /\ pc' = "idle"
    /\ oret' = [op |-> "Flush",
                status |-> FlushResult(flStatus, bytesStored, isTxComplete),
                tx |-> flIssued, len |-> 0]
    /\ UNCHANGED <<cliBuffer, pBufferToWrite, bytesStored, isTxComplete, bufId,
                   flStatus, flIssued, txOutstanding, txBuf, txLog, putLog>>
    /\ UNCHANGED <<ringVars, nOffset, nAvail, nResult, dst, chRet, isrVars, editVars, histVars, apiVars, nvmVars>>

\* A completion callback that leaves isTxComplete as it is.
TxCallbackLost ==
    /\ txOutstanding > 0
    /\ txOutstanding' = txOutstanding - 1
    /\ UNCHANGED <<cliBuffer, pBufferToWrite, bytesStored, isTxComplete, bufId,
                   flStatus, flIssued, txBuf, txLog, putLog, oret>>
    /\ UNCHANGED <<ringVars, fgVars, isrVars, editVars, histVars, apiVars, nvmVars>>

\* A completion callback that also empties the filling buffer.
TxCallbackClears ==
    /\ txOutstanding > 0
    /\ txOutstanding' = txOutstanding - 1
    /\ isTxComplete' = 1
    /\ bytesStored' = 0
    /\ UNCHANGED <<cliBuffer, pBufferToWrite, bufId, flStatus, flIssued, txBuf,
                   txLog, putLog, oret>>
    /\ UNCHANGED <<ringVars, fgVars, isrVars, editVars, histVars, apiVars, nvmVars>>

\* The transport has completed a request and the embedder calls the callback.
adi_cli_TxCallback ==
    /\ txOutstanding > 0
    /\ txOutstanding' = txOutstanding - 1
    /\ isTxComplete' = 1
    /\ UNCHANGED <<cliBuffer, pBufferToWrite, bytesStored, bufId, flStatus,
                   flIssued, txBuf, txLog, putLog, oret>>
    /\ UNCHANGED <<ringVars, fgVars, isrVars, editVars, histVars, apiVars, nvmVars>>

\* adi_cli_Create on the same state memory from the memset on: the memset,
\* InitCircBuff and IntialiseStateData, and the status the call returns;
\* adi_cli_Create is the call with sufficient memory sizes by a caller that
\* initialises the session as before.  The static bufId is not part
\* of the state memory.  The session is created again only while the
\* foreground is in no other call and the transport holds no request; the
\* histories start again with the new session.
CreateState(status) ==
    /\ pc = "idle"
    /\ txOutstanding = 0
    /\ cliBuffer' = [b \in {0, 1} |-> [i \in 0..(ADI_CLI_MAX_SIZE - 1) |-> 0]]
    /\ pBufferToWrite' = 0
    /\ bytesStored' = 0
    /\ isTxComplete' = 1
    /\ txLog' = <<>>
    /\ putLog' = <<>>
    /\ oret' = [op |-> "Create", status |-> status, tx |-> FALSE, len |-> 0]
    /\ UNCHANGED <<bufId, flStatus, flIssued, txOutstanding, txBuf>>
    /\ nSize' = RX_BUFFER_SIZE
    /\ pBase' = [i \in 0..(RX_BUFFER_SIZE - 1) |-> 0]
    /\ nReadIndex' = 0
    /\ nWriteIndex' = 0
    /\ rxByte' = 0
    /\ cliString' = [i \in 0..(maxCmd - 1) |-> 0]
    /\ indexCur' = 0
    /\ indexEnd' = 0
    /\ numCharsToPrint' = 0
    /\ echo' = TRUE
    /\ deferPrompt' = FALSE
    /\ displayPrompt' = FALSE
    /\ userIsTyping' = FALSE
    /\ displayCtrlChars' = TRUE
    /\ history' = [list |-> [i \in 0..(HISTORY_DEPTH - 1) |-> <<>>],
                   headIndex |-> 0, tailIndex |-> 0, curIndex |-> 0]
    /\ memFault' = FALSE
    /\ UNCHANGED <<accepted, delivered, rlast, fgVars, rxArmed, rxRet,
                   escSeqState, inputChar, cmdRet, histCalls, maxCmd, histVars, nvmVars>>

adi_cli_Create == CreateState(ADI_CLI_STATUS_SUCCESS) /\ UNCHANGED apiVars

InitOut ==
    /\ InitCircBuff(RX_BUFFER_SIZE)
    /\ FgIdle
    /\ IsrInit
    /\ IntialiseStateData
    /\ EditCreated(CmdLenEdit)

Appends ==
    \/ \E c \in Char : adi_cli_PutChar(c)
    \/ \E str \in CharsUpTo(MaxLen) : adi_cli_PutString(str)
    \/ \E data \in CharsUpTo(MaxLen) : adi_cli_PutBuffer(data)
    \/ \E msg \in CharsUpTo(MaxLen) : adi_cli_PrintMessageRaw(msg)

NextOut ==
    \/ Appends
    \/ \E st \in {0, 1} : FlushBegin(st)
    \/ FlushEnd
    \/ adi_cli_TxCallback
    \/ adi_cli_Create

SpecOut == InitOut /\ [][NextOut]_vars

\* The flush path of one session: every request is taken by the transport and
\* completed, and the foreground keeps calling adi_cli_FlushMessages.
NextLive ==
    \/ Appends
    \/ FlushBegin(0)
    \/ FlushEnd
    \/ adi_cli_TxCallback

LiveOut ==
    /\ InitOut
    /\ [][NextLive]_vars
    /\ WF_vars(FlushBegin(0))
    /\ WF_vars(FlushEnd)
    /\ WF_vars(adi_cli_TxCallback)

\* The bytes of the filling buffer that no flush has handed over yet.
Pending == Payload(cliBuffer[pBufferToWrite], bytesStored)

\* C5: while a transmit request is outstanding (issued, its completion
\* callback not yet invoked) no flush calls the transmit function and every
\* flush returns ADI_CLI_STATUS_TRANSMISSION_IN_PROGRESS, so at most one
\* request is outstanding; a flush that has started can always return.
C5_OneTransmit ==
    /\ [](txOutstanding <= 1)
    /\ [](pc = "fl_check" => ENABLED FlushEnd)
    /\ [][txOutstanding > 0 =>
            /\ txLog' = txLog
            /\ txOutstanding' <= txOutstanding
            /\ (pc = "fl_check" /\ pc' = "idle") =>
                   oret'.status = ADI_CLI_STATUS_TRANSMISSION_IN_PROGRESS]_vars

\* A flush with bytes to send has returned busy without transmitting, behind
\* a request that is still outstanding.
C5_Witness ==
    /\ pc = "idle"
    /\ oret.op = "Flush" /\ ~oret.tx
    /\ oret.status = ADI_CLI_STATUS_TRANSMISSION_IN_PROGRESS
    /\ txOutstanding = 1
    /\ bytesStored > 0

\* C6: the buffer being filled is not the buffer handed to a transmit that is
\* still in flight.
C6_FillingNotInFlight == txOutstanding > 0 => pBufferToWrite # txBuf

\* C7: the bytes handed to the transmit function, over all flushes, followed
\* by the bytes stored in the filling buffer are the bytes of the successful
\* appends in append order; so the bytes handed over are always a prefix of
\* the bytes appended.
C7_TransmitOrder ==
    /\ putLog = txLog \o Pending
    /\ IsPrefix(txLog, putLog)

\* More bytes than one buffer holds have been handed over, by flushes of both
\* buffers, and appended bytes are pending.
C7_Witness ==
    /\ Len(txLog) >= ADI_CLI_MAX_SIZE
    /\ bufId = 0
    /\ bytesStored > 0

\* A flush has just returned ADI_CLI_STATUS_SUCCESS with nothing stored,
\* nothing in flight and every appended byte handed to the transmit function.
FlushedIdle ==
    /\ pc = "idle"
    /\ oret.op = "Flush" /\ oret.status = ADI_CLI_STATUS_SUCCESS
    /\ bytesStored = 0
    /\ isTxComplete = 1 /\ txOutstanding = 0
    /\ txLog = putLog

\* C8: when every transmit is accepted and completed and the foreground keeps
\* calling adi_cli_FlushMessages, a call returns ADI_CLI_STATUS_SUCCESS again
\* and again (after every burst of appends), each time with bytesStored = 0,
\* no transmit in flight and every appended byte handed to the transmit
\* function.
C8_FlushUntilIdle == []<>FlushedIdle

\* The loop has ended after sending every byte the bounds allow.
C8_Witness == FlushedIdle /\ Len(txLog) = MaxPut

\* What an append of len bytes must do.
AppendPost(len) ==
    /\ (oret'.status = ADI_CLI_STATUS_SUCCESS) <=> (bytesStored + len < ADI_CLI_MAX_SIZE)
    /\ oret'.status = ADI_CLI_STATUS_SUCCESS => bytesStored' = bytesStored + len
    /\ oret'.status # ADI_CLI_STATUS_SUCCESS =>
           UNCHANGED <<bytesStored, cliBuffer, pBufferToWrite>>

\* A step of one of the append functions.
IsAppendStep ==
    /\ pc = "idle" /\ pc' = "idle"
    /\ oret'.op \in AppendOps
    /\ txOutstanding' = txOutstanding

C10_EmptyFlushIdle ==
    (pc = "idle" /\ oret.op = "Flush" /\ ~oret.tx /\ bytesStored = 0)
        => oret.status = ADI_CLI_STATUS_SUCCESS

\* C10 as amended: a flush called with bytesStored = 0 calls no transmit; it
\* returns ADI_CLI_STATUS_SUCCESS when isTxComplete is set at its last test
\* and ADI_CLI_STATUS_TRANSMISSION_IN_PROGRESS when a transmit is in flight.
C10_EmptyFlush ==
    [][/\ (pc = "idle" /\ pc' = "fl_check" /\ bytesStored = 0) =>
              (txLog' = txLog /\ ~flIssued'
               /\ UNCHANGED <<txOutstanding, isTxComplete, bytesStored, pBufferToWrite>>)
       /\ (pc = "fl_check" /\ pc' = "idle" /\ ~flIssued /\ bytesStored = 0) =>
              oret'.status = IF isTxComplete = 1
                             THEN ADI_CLI_STATUS_SUCCESS
                             ELSE ADI_CLI_STATUS_TRANSMISSION_IN_PROGRESS]_vars

\* A flush of the empty filling buffer has returned busy behind a transmit
\* still in flight.
C10_Witness ==
    /\ pc = "idle"
    /\ oret.op = "Flush" /\ ~oret.tx
    /\ bytesStored = 0
    /\ oret.status = ADI_CLI_STATUS_TRANSMISSION_IN_PROGRESS
    /\ txOutstanding = 1

\* C11: a flush called with bytesStored > 0 and no transmit in flight calls
\* the transmit function once with the filling buffer and bytesStored, marks
\* a transmit in flight, makes the other buffer the filling buffer, resets
\* bytesStored, and returns a status other than
\* ADI_CLI_STATUS_TRANSMISSION_IN_PROGRESS.
C11_FlushSends ==
    [][/\ (pc = "idle" /\ pc' = "fl_check" /\ bytesStored > 0 /\ isTxComplete = 1) =>
              /\ flIssued'
              /\ txLog' = txLog \o Pending
              /\ isTxComplete' = 0
              /\ pBufferToWrite' = 1 - pBufferToWrite
              /\ bytesStored' = 0
       /\ (pc = "fl_check" /\ pc' = "idle" /\ flIssued) =>
              oret'.status # ADI_CLI_STATUS_TRANSMISSION_IN_PROGRESS]_vars

\* C12: when pfTransmitAsync returns a non-zero status inside
\* adi_cli_FlushMessages, the call returns an error status, neither
\* ADI_CLI_STATUS_SUCCESS nor ADI_CLI_STATUS_TRANSMISSION_IN_PROGRESS.
C12_TransmitFailureReported ==
    [][(pc = "fl_check" /\ pc' = "idle" /\ flIssued /\ flStatus # 0) =>
           oret'.status \notin {ADI_CLI_STATUS_SUCCESS,
                                ADI_CLI_STATUS_TRANSMISSION_IN_PROGRESS}]_vars

\* C13: a flush whose transmit function reports failure leaves bytesStored,
\* the choice of filling buffer and the in-flight flag as they were.
C13_FailedFlushKeepsBytes ==
    [][(pc = "idle" /\ pc' = "fl_check" /\ flIssued' /\ flStatus' # 0) =>
           UNCHANGED <<bytesStored, pBufferToWrite, isTxComplete>>]_vars

\* C14: when the receive buffer has no room for one more byte,
\* adi_cli_RxCallback leaves its contents and indices unchanged and returns
\* a status other than ADI_CLI_STATUS_SUCCESS.
C14_RxFullReported ==
    [][(pc' = pc /\ rlast'.op = "Write" /\ rlast'.nResult = 1) =>
           /\ UNCHANGED <<pBase, nReadIndex, nWriteIndex>>
           /\ rxRet' # ADI_CLI_STATUS_SUCCESS]_vars

(***************************************************************************)
(* The edit line (cli_private.c).  The functions take the CLI_PRIVATE      *)
(* structure and change several of its fields; each is an operator from    *)
(* the fields before the call to the fields after it.  Priv collects the   *)
(* fields: the edit line, the flags, the history, and the filling message  *)
(* buffer (buf) with bytesStored (stored).                                 *)
(***************************************************************************)
Priv ==
    [cliString |-> cliString, indexCur |-> indexCur, indexEnd |-> indexEnd,
     numCharsToPrint |-> numCharsToPrint, echo |-> echo,
     deferPrompt |-> deferPrompt, displayPrompt |-> displayPrompt,
     userIsTyping |-> userIsTyping, displayCtrlChars |-> displayCtrlChars,
     history |-> history, buf |-> cliBuffer[pBufferToWrite],
     stored |-> bytesStored, histCalls |-> histCalls, memFault |-> memFault,
     maxCmd |-> maxCmd]

\* CliPutChar and CliPutString as the edit line calls them: the status is
\* not looked at.
PutCharTo(p, c) ==
    LET res == CliPutChar(p.buf, p.stored, c)
    IN  [p EXCEPT !.buf = res.buf, !.stored = res.stored]

PutStringTo(p, str) ==
    LET res == CliPutString(p.buf, p.stored, str)
    IN  [p EXCEPT !.buf = res.buf, !.stored = res.stored]

CliInsertManualControlChars(p, ctrlFuncID) ==
    CASE ctrlFuncID = CLI_CTRL_ALERT -> PutCharTo(p, 7)
      [] ctrlFuncID = CLI_CTRL_BOLD -> PutStringTo(p, <<27, 91, 49, 109>>)
      [] ctrlFuncID = CLI_CTRL_CLS -> PutStringTo(p, <<27, 91, 50, 74, 27, 91, 72>>)
      [] ctrlFuncID = CLI_CTRL_KILL -> PutStringTo(p, <<27, 91, 75>>)
      [] ctrlFuncID = CLI_CTRL_PREV -> PutStringTo(p, <<27, 91, 49, 68>>)
      [] ctrlFuncID = CLI_CTRL_NEXT -> PutStringTo(p, <<27, 91, 49, 67>>)
      [] ctrlFuncID = CLI_CTRL_NORMAL -> PutStringTo(p, <<27, 91, 48, 109>>)
      [] ctrlFuncID = CLI_CTRL_RESTORE -> PutStringTo(p, <<27, 56>>)
      [] ctrlFuncID = CLI_CTRL_SAVE -> PutStringTo(p, <<27, 55>>)
      [] OTHER -> p

CliInsertControlChars(p, ctrlFuncID) ==
    IF p.displayCtrlChars
    THEN CASE ctrlFuncID = CLI_CTRL_CR -> PutCharTo(p, 13)
           [] ctrlFuncID = CLI_CTRL_NEWLINE -> PutStringTo(p, <<13, 10>>)
           [] OTHER -> IF p.echo THEN CliInsertManualControlChars(p, ctrlFuncID)
                       ELSE p
    ELSE p

\* CliInsertControlChars returns 0 for these ids, so the || chain goes on to
\* CliPutString, and to the last call only when CliPutString returned 0.
CliPutStringBold(p, pString) ==
    LET Normal(p1, res) ==
            IF res.status # 0
            THEN p1
            ELSE CliInsertControlChars(
                     [p1 EXCEPT !.buf = res.buf, !.stored = res.stored],
                     CLI_CTRL_NORMAL)
        Put(p1) == Normal(p1, CliPutString(p1.buf, p1.stored, pString))
    IN  Put(CliInsertControlChars(p, CLI_CTRL_BOLD))

CliDisplayPrompt(p) ==
    IF p.displayCtrlChars
    THEN CliPutStringBold(CliInsertControlChars(p, CLI_CTRL_CR), APP_CFG_CLI_PROMPT)
    ELSE p

\* pBuffer is cliString in every call after the first adi_cli_GetCmd; before
\* it pBuffer is NULL and cliString[0] is 0 from the memset.
CliEditLineReset(p) ==
    [p EXCEPT !.cliString[0] = 0, !.indexCur = 0, !.indexEnd = 0,
              !.numCharsToPrint = 0]

CliClearLine(p) == CliInsertControlChars(CliEditLineReset(p), CLI_CTRL_CR)

CliOverwriteLineWithPrompt(p) ==
    CliDisplayPrompt(CliClearLine([p EXCEPT !.deferPrompt = FALSE,
                                            !.displayPrompt = FALSE]))

CliReset(p) ==
    CliDisplayPrompt(
        CliInsertControlChars(
            CliInsertControlChars(CliEditLineReset(p), CLI_CTRL_CR),
            CLI_CTRL_KILL))

\* n calls of CliInsertControlChars(ctrlFuncID).
RECURSIVE RepeatControlChars(_, _, _)
RepeatControlChars(p, ctrlFuncID, n) ==
    IF n <= 0 THEN p
    ELSE RepeatControlChars(CliInsertControlChars(p, ctrlFuncID), ctrlFuncID, n - 1)

CliMoveCursorToStart(p) ==
    [RepeatControlChars(p, CLI_CTRL_PREV, p.indexCur) EXCEPT !.indexCur = 0]

\* The loop runs until i = indexEnd; with indexCur > indexEnd it runs until i
\* has wrapped, and only its first calls find room in the message buffer.
CliMoveCursorToEnd(p) ==
    LET n == IF p.indexCur <= p.indexEnd THEN p.indexEnd - p.indexCur
             ELSE ADI_CLI_MAX_SIZE
    IN  [RepeatControlChars(p, CLI_CTRL_NEXT, n) EXCEPT !.indexCur = p.indexEnd]

CliMoveCursorBackward(p) ==
    IF p.indexCur > 0
    THEN CliInsertControlChars([p EXCEPT !.indexCur = p.indexCur - 1], CLI_CTRL_PREV)
    ELSE p

CliMoveCursorForward(p) ==
    IF (p.indexCur < p.maxCmd - 1) /\ (p.indexCur < p.indexEnd)
    THEN CliInsertControlChars([p EXCEPT !.indexCur = p.indexCur + 1], CLI_CTRL_NEXT)
    ELSE p

CliDeleteAllChars(p) ==
    [CliInsertControlChars(p, CLI_CTRL_KILL) EXCEPT !.indexEnd = p.indexCur]

\* The C string at cliString[from]: the bytes up to the first 0, at most n of
\* them (strcpy, and snprintf with size n + 1 and format "%s").
RECURSIVE CStrN(_, _, _)
CStrN(str, from, n) ==
    IF n <= 0 \/ from \notin DOMAIN str THEN <<>>
    ELSE IF str[from] = 0 THEN <<>>
    ELSE <<str[from]>> \o CStrN(str, from + 1, n - 1)

CliPutEditLineChar(p, c) ==
    LET cur == IF p.indexCur < p.maxCmd - 1 THEN p.indexCur + 1 ELSE p.indexCur
        Echo(p1) == IF p.echo THEN PutCharTo(p1, c) ELSE p1
    IN  [Echo([p EXCEPT !.cliString[p.indexCur] = c])
             EXCEPT !.indexCur = cur,
                    !.indexEnd = IF cur > p.indexEnd THEN cur ELSE p.indexEnd]

\* The loop of CliFillCommandLine from pCommand[i] on (i counts from 1 here).
RECURSIVE FillLoop(_, _, _)
FillLoop(p, pCommand, i) ==
    IF i > Len(pCommand) \/ ~(i - 1 < p.maxCmd) THEN p
    ELSE FillLoop(CliPutEditLineChar(p, pCommand[i]), pCommand, i + 1)

CliFillCommandLine(p, pCommand) == FillLoop(CliReset(p), pCommand, 1)

\* The loop of CliDeleteCharAtCursor: i runs from indexCur to indexEnd - 2.
RECURSIVE DeleteLoop(_, _)
DeleteLoop(p, i) ==
    IF ~(i < p.indexEnd - 1) THEN p
    ELSE LET Echo(p1) == IF p.echo THEN PutCharTo(p1, p1.cliString[i]) ELSE p1
         IN  DeleteLoop(Echo([p EXCEPT !.cliString[i] = p.cliString[i + 1]]), i + 1)

CliDeleteCharAtCursor(p) ==
    IF p.indexCur > 0
    THEN LET p1 == [p EXCEPT !.indexCur = p.indexCur - 1]
             p2 == CliInsertControlChars(p1, CLI_CTRL_PREV)
             p3 == CliInsertControlChars(p2, CLI_CTRL_SAVE)
             p4 == DeleteLoop(p3, p.indexCur - 1)
             p5 == PutCharTo(p4, 32)
             p6 == CliInsertControlChars(p5, CLI_CTRL_RESTORE)
         IN  [p6 EXCEPT !.indexEnd = p.indexEnd - 1]
    ELSE p

\* The right shift of CliInsertChar: pBuffer[i] = pBuffer[i - 1] for i from
\* last down to first.
ShiftRight(str, first, last) ==
    [i \in DOMAIN str |-> IF first <= i /\ i <= last THEN str[i - 1] ELSE str[i]]

\* CliInsertChar.  numAvail is what CliGetNumCharAvailable returns.  The store
\* pBuffer[indexInputChar] has no bounds check: with indexInputChar beyond
\* the array it writes into the fields that follow cliString in CLI_PRIVATE.
\* Which field it hits depends on the build; hit names it ("none": a field
\* the model does not hold), the field gets the byte, and the session is not
\* followed further (memFault).
CliInsertChar(p, c, numAvail, hit) ==
    LET fits == p.indexEnd < p.maxCmd - 1
        indexInputChar == p.indexCur + p.numCharsToPrint
        end1 == p.indexEnd + 1
        shifted == ShiftRight(p.cliString, indexInputChar + 1, end1)
    IN  IF fits /\ indexInputChar > p.maxCmd - 1
        THEN [p EXCEPT !.cliString = shifted,
                       !.indexEnd = IF hit = "indexEnd" THEN c ELSE end1,
                       !.indexCur = IF hit = "indexCur" THEN c ELSE @,
                       !.numCharsToPrint = IF hit = "numCharsToPrint" THEN c ELSE @,
                       !.memFault = TRUE]
        ELSE
        LET PrintRest(p3) ==
                IF p3.indexCur < p3.indexEnd
                THEN PutStringTo(p3, CStrN(p3.cliString, p3.indexCur,
                                           p3.indexEnd - p3.indexCur))
                ELSE [p3 EXCEPT !.indexEnd = p3.indexCur]
            PrintSpan(p1) ==
                IF p1.indexCur + p1.numCharsToPrint < p1.maxCmd
                THEN [PutStringTo(p1, CStrN(p1.cliString, p1.indexCur,
                                            p1.numCharsToPrint))
                          EXCEPT !.indexCur = p1.indexCur + p1.numCharsToPrint]
                ELSE p1
            SaveCursor(p2) ==
                CliInsertControlChars([p2 EXCEPT !.numCharsToPrint = 0], CLI_CTRL_SAVE)
            Echo(p1) ==
                IF numAvail = 0 /\ p1.echo
                THEN CliInsertControlChars(PrintRest(SaveCursor(PrintSpan(p1))),
                                           CLI_CTRL_RESTORE)
                ELSE p1
        IN  Echo(IF fits
                 THEN [p EXCEPT !.cliString = [shifted EXCEPT ![indexInputChar] = c],
                                !.indexEnd = end1,
                                !.numCharsToPrint = p.numCharsToPrint + 1]
                 ELSE p)

(***************************************************************************)
(* cli_history.c and TrimWhiteSpaces of cli_utils.c.  A history entry is   *)
(* the C string stored in list[i].                                         *)
(***************************************************************************)
isspace(c) == c \in {32, 9, 10, 11, 12, 13}

RECURSIVE TrimLeading(_)
TrimLeading(str) ==
    IF str # <<>> /\ isspace(Head(str)) THEN TrimLeading(Tail(str)) ELSE str

\* pEnd moves left while it is right of the first character.
RECURSIVE TrimTrailing(_)
TrimTrailing(str) ==
    IF Len(str) > 1 /\ isspace(str[Len(str)])
    THEN TrimTrailing(SubSeq(str, 1, Len(str) - 1))
    ELSE str

TrimWhiteSpaces(pCommand) == TrimTrailing(TrimLeading(pCommand))

\* The index before i without the wrap to the last slot.
HistoryPrevNoWrap(i) == IF i = 0 THEN 0 ELSE i - 1

\* The uint32_t index before i: 0 - 1 wraps and is brought to HISTORY_DEPTH - 1.
HistoryPrev(i) == IF i = 0 THEN HISTORY_DEPTH - 1 ELSE i - 1

HistoryNext(i) == IF i + 1 < HISTORY_DEPTH THEN i + 1 ELSE 0

HistoryCheckForDuplicate(h, pCommand) ==
    /\ h.headIndex # h.tailIndex
    /\ pCommand = h.list[HistoryPrev(h.headIndex)]

\* An append that moves headIndex and leaves tailIndex where it is.
HistoryAppendKeepsTail(h, pCommand) ==
    LET trimCommand == TrimWhiteSpaces(pCommand)
    IN  IF Len(trimCommand) # 0
        THEN IF HistoryCheckForDuplicate(h, trimCommand)
             THEN [h EXCEPT !.curIndex = h.headIndex]
             ELSE [h EXCEPT !.list[h.headIndex] = trimCommand,
                            !.headIndex = HistoryNext(h.headIndex),
                            !.curIndex = HistoryNext(h.headIndex)]
        ELSE h

HistoryAppend(h, pCommand) ==
    LET trimCommand == TrimWhiteSpaces(pCommand)
    IN  IF Len(trimCommand) # 0
        THEN IF HistoryCheckForDuplicate(h, trimCommand)
             THEN [h EXCEPT !.curIndex = h.headIndex]
             ELSE LET head == HistoryNext(h.headIndex)
                  IN  [h EXCEPT !.list[h.headIndex] = trimCommand,
                                !.headIndex = head,
                                !.curIndex = head,
                                !.tailIndex = IF head = h.tailIndex
                                              THEN HistoryNext(h.tailIndex)
                                              ELSE h.tailIndex]
        ELSE h

\* found is FALSE where the function returns NULL.
HistoryScrollUp(h) ==
    IF h.curIndex # h.tailIndex
    THEN LET cur == HistoryPrev(h.curIndex)
         IN  [h |-> [h EXCEPT !.curIndex = cur], found |-> TRUE, pCommand |-> h.list[cur]]
    ELSE [h |-> h, found |-> FALSE, pCommand |-> <<>>]

HistoryScrollDown(h) ==
    IF h.curIndex # h.headIndex
    THEN LET cur == HistoryNext(h.curIndex)
         IN  [h |-> [h EXCEPT !.curIndex = cur], found |-> cur # h.headIndex,
              pCommand |-> IF cur # h.headIndex THEN h.list[cur] ELSE <<>>]
    ELSE [h |-> h, found |-> FALSE, pCommand |-> <<>>]

(***************************************************************************)
(* Input processing: CliProcessInputChar, CliScanInputChars,               *)
(* CliReadCommandLineInput and adi_cli_GetCmd.                             *)
(***************************************************************************)
iscntrl(c) == c < 32 \/ c = 127

\* The result is the fields after the call and the returned status: 0 when a
\* line is complete.
CliProcessInputChar(p, c, numAvail, hit) ==
    IF ~iscntrl(c)
    THEN [p |-> CliInsertChar(p, c, numAvail, hit), status |-> 1]
    ELSE CASE c = 1 -> [p |-> CliMoveCursorToStart(p), status |-> 1]
           [] c = 5 -> [p |-> CliMoveCursorToEnd(p), status |-> 1]
           [] c \in {2, 16} -> [p |-> CliMoveCursorBackward(p), status |-> 1]
           [] c \in {6, 14} -> [p |-> CliMoveCursorForward(p), status |-> 1]
           [] c = 11 -> [p |-> CliDeleteAllChars(p), status |-> 1]
           [] c \in {8, 127} -> [p |-> CliDeleteCharAtCursor(p), status |-> 1]
           [] c \in {13, 10} ->
                LET str == [p.cliString EXCEPT ![p.indexEnd] = 0]
                    pBuffer == CStrN(str, 0, p.maxCmd)
                IN  [p |-> [p EXCEPT !.cliString = str,
                                     !.history = HistoryAppend(p.history, pBuffer),
                                     !.histCalls = Append(p.histCalls, pBuffer),
                                     !.userIsTyping = FALSE],
                     status |-> 0]
           [] c = 12 -> [p |-> CliReset(p), status |-> 1]
           [] c = 3 -> [p |-> [p EXCEPT !.cliString[0] = 0], status |-> 0]
           [] OTHER -> [p |-> CliInsertControlChars(p, CLI_CTRL_ALERT), status |-> 1]

\* CliScanInputChars after CliGetChar has returned ch; esc is escSeqState.
CliScanInputChars(p, esc, ch, numAvail, hit) ==
    LET Up(p1, up) ==
            IF up.found
            THEN CliFillCommandLine([p1 EXCEPT !.history = up.h], up.pCommand)
            ELSE [p1 EXCEPT !.history = up.h]
        Down(p1, down) ==
            IF down.found
            THEN CliFillCommandLine([p1 EXCEPT !.history = down.h], down.pCommand)
            ELSE CliReset([p1 EXCEPT !.history = down.h])
        Result(r) == [p |-> r.p, esc |-> esc, status |-> r.status]
        Decode(p1) ==
            CASE esc = CLI_MET_NO_CHAR ->
                   IF ch = 27
                   THEN [p |-> p1, esc |-> esc + 1, status |-> 1]
                   ELSE Result(CliProcessInputChar(p1, ch, numAvail, hit))
              [] esc = CLI_MET_ESC_CHAR ->
                   [p |-> p1, esc |-> IF ch = 91 THEN esc + 1 ELSE 0, status |-> 1]
              [] esc = CLI_MET_CTRL_CHAR ->
                   CASE ch = 65 ->
                          [p |-> Up(p1, HistoryScrollUp(p1.history)),
                           esc |-> 0, status |-> 1]
                     [] ch = 66 ->
                          [p |-> Down(p1, HistoryScrollDown(p1.history)),
                           esc |-> 0, status |-> 1]
                     [] ch = 67 ->
                          [p |-> CliMoveCursorForward(p1), esc |-> 0, status |-> 1]
                     [] ch = 68 ->
                          [p |-> CliMoveCursorBackward(p1), esc |-> 0, status |-> 1]
                     [] ch = 49 ->
                          [p |-> CliMoveCursorToStart(p1), esc |-> esc + 1, status |-> 1]
                     [] ch = 52 ->
                          [p |-> CliMoveCursorToEnd(p1), esc |-> esc + 1, status |-> 1]
                     [] OTHER -> [p |-> p1, esc |-> esc + 1, status |-> 1]
              [] esc = CLI_MET_FINAL_CHAR ->
                   [p |-> p1, esc |-> IF ch = 126 THEN 0 ELSE esc, status |-> 1]
              [] OTHER -> [p |-> p1, esc |-> 0, status |-> 1]
    IN  IF ch = EOF
        THEN [p |-> p, esc |-> esc, status |-> 1]
        ELSE Decode(IF p.deferPrompt
                    THEN CliOverwriteLineWithPrompt(
                             CliInsertControlChars([p EXCEPT !.userIsTyping = TRUE],
                                                   CLI_CTRL_NEWLINE))
                    ELSE [p EXCEPT !.userIsTyping = TRUE])

\* A CliReadCommandLineInput that goes to CliScanInputChars at once.
ReadCommandLineNoPrompt(p) == p

\* CliReadCommandLineInput up to the call of CliScanInputChars.
ReadCommandLineEnter(p) ==
    IF p.displayPrompt THEN CliOverwriteLineWithPrompt(p) ELSE p

\* A completed line is appended to the history by the caller, ^C included.
ReadCommandLineLeaveAppends(p, status) ==
    IF status = 0
    THEN LET pBuffer == CStrN(p.cliString, 0, p.maxCmd)
         IN  CliInsertControlChars(
                 [p EXCEPT !.displayPrompt = TRUE,
                           !.history = HistoryAppend(p.history, pBuffer),
                           !.histCalls = Append(p.histCalls, pBuffer)],
                 CLI_CTRL_NEWLINE)
    ELSE p

\* CliReadCommandLineInput from the return of CliScanInputChars on.
ReadCommandLineLeave(p, status) ==
    IF status = 0
    THEN CliInsertControlChars([p EXCEPT !.displayPrompt = TRUE], CLI_CTRL_NEWLINE)
    ELSE p

\* HistoryInit and CliInit, called by adi_cli_Init.
HistoryInit ==
    [list |-> [i \in 0..(HISTORY_DEPTH - 1) |-> <<>>],
     headIndex |-> 0, tailIndex |-> 0, curIndex |-> 0]

CliInit(p) ==
    LET p1 == CliInsertControlChars(p, CLI_CTRL_CLS)
        p2 == [p1 EXCEPT !.history.list = HistoryInit.list,
                         !.history.headIndex = 0, !.history.tailIndex = 0]
    IN  CliEditLineReset(CliDisplayPrompt(p2))

(***************************************************************************)
(* A session after adi_cli_Create and adi_cli_Init: the first receive is   *)
(* armed and CliInit has written what fits of the clear screen sequence    *)
(* and the prompt to cliBuffer0.                                           *)
(***************************************************************************)
CreatedPriv(len) ==
    [cliString |-> [i \in 0..(len - 1) |-> 0], indexCur |-> 0, indexEnd |-> 0,
     numCharsToPrint |-> 0, echo |-> TRUE, deferPrompt |-> FALSE,
     displayPrompt |-> FALSE, userIsTyping |-> FALSE, displayCtrlChars |-> TRUE,
     history |-> HistoryInit, buf |-> [i \in 0..(ADI_CLI_MAX_SIZE - 1) |-> 0],
     stored |-> 0, histCalls |-> <<>>, memFault |-> FALSE, maxCmd |-> len]

InitSession(len) ==
    LET q == CliInit(CreatedPriv(len))
    IN  /\ InitCircBuff(RX_BUFFER_SIZE)
        /\ FgIdle
        /\ IsrInit
        /\ cliBuffer = [b \in {0, 1} |->
                           IF b = 0 THEN q.buf
                           ELSE [i \in 0..(ADI_CLI_MAX_SIZE - 1) |-> 0]]
        /\ pBufferToWrite = 0
        /\ bytesStored = q.stored
        /\ isTxComplete = 1
        /\ bufId = 0
        /\ flStatus = ADI_CLI_STATUS_SUCCESS
        /\ flIssued = FALSE
        /\ txOutstanding = 0
        /\ txBuf = 0
        /\ txLog = <<>>
        /\ putLog = Payload(q.buf, q.stored)
        /\ oret = [op |-> "Init", status |-> ADI_CLI_STATUS_SUCCESS, tx |-> FALSE,
                   len |-> 0]
        /\ maxCmd = len
        /\ cliString = q.cliString
        /\ indexCur = q.indexCur
        /\ indexEnd = q.indexEnd
        /\ numCharsToPrint = q.numCharsToPrint
        /\ escSeqState = 0
        /\ echo = q.echo
        /\ deferPrompt = q.deferPrompt
        /\ displayPrompt = q.displayPrompt
        /\ userIsTyping = q.userIsTyping
        /\ displayCtrlChars = q.displayCtrlChars
        /\ history = q.history
        /\ inputChar = EOF
        /\ cmdRet = [status |-> ADI_CLI_STATUS_SUCCESS, cmd |-> <<>>]
        /\ histCalls = <<>>
        /\ memFault = FALSE
        /\ hops = <<>>
        /\ disp = DispNone
        /\ api = ApiInitialised
        /\ nvm = NvmNone

\* The CLI_PRIVATE fields after a step of adi_cli_GetCmd that leaves them as q.
StorePriv(q) ==
    /\ cliString' = q.cliString
    /\ indexCur' = q.indexCur
    /\ indexEnd' = q.indexEnd
    /\ numCharsToPrint' = q.numCharsToPrint
    /\ echo' = q.echo
    /\ deferPrompt' = q.deferPrompt
    /\ displayPrompt' = q.displayPrompt
    /\ userIsTyping' = q.userIsTyping
    /\ displayCtrlChars' = q.displayCtrlChars
    /\ history' = q.history
    /\ histCalls' = q.histCalls
    /\ memFault' = q.memFault
    /\ cliBuffer' = [cliBuffer EXCEPT ![pBufferToWrite] = q.buf]
    /\ bytesStored' = q.stored
    /\ putLog' = putLog \o SubSeq(Payload(q.buf, q.stored), bytesStored + 1, q.stored)

\* adi_cli_GetCmd up to the return of CliGetChar: the prompt if one is due,
\* and ADICircBufRead(pRxBuff, &ret, 1).  The session is not followed after a
\* store outside cliString.
GetCmdEnter ==
    /\ pc = "idle"
    /\ ~memFault
    /\ pc' = "gc_scan"
    /\ StorePriv(ReadCommandLineEnter(Priv))
    /\ LET res == ADICircBufRead(pBase, nReadIndex, nWriteIndex, nSize, 1)
       IN  /\ nReadIndex' = res.r
           /\ inputChar' = IF res.nResult = 1 THEN EOF ELSE res.data[1]
           /\ chRet' = IF res.nResult = 1 THEN EOF ELSE res.data[1]
           /\ delivered' = IF res.nResult = 0 THEN delivered \o res.data ELSE delivered
           /\ rlast' = [op |-> "Read", n |-> 1, nResult |-> res.nResult,
                        data |-> res.data]
    /\ UNCHANGED <<nSize, pBase, nWriteIndex, accepted>>
    /\ UNCHANGED <<nOffset, nAvail, nResult, dst, isrVars>>
    /\ UNCHANGED <<pBufferToWrite, isTxComplete, bufId, flStatus, flIssued,
                   txOutstanding, txBuf, txLog, oret>>
    /\ UNCHANGED <<escSeqState, cmdRet, maxCmd, histVars, apiVars, nvmVars>>

\* The fields a store past the end of cliString may hit.
Hits == {"none", "indexCur", "indexEnd", "numCharsToPrint"}

\* adi_cli_GetCmd from the return of CliGetChar to its own return.  pCommand
\* is written only when a line is complete.
GetCmdScan ==
    /\ pc = "gc_scan"
    /\ pc' = "idle"
    /\ \E hit \in IF indexCur + numCharsToPrint > maxCmd - 1 THEN Hits ELSE {"none"} :
          LET numAvail == ADICircBufGetNumBytesAvailable(nReadIndex, nWriteIndex, nSize)
              Return(r, q, status) ==
                  /\ StorePriv(q)
                  /\ escSeqState' = r.esc
                  /\ cmdRet' = [status |-> status,
                                cmd |-> IF r.status = 0
                                        THEN CStrN(q.cliString, 0, q.maxCmd)
                                        ELSE cmdRet.cmd]
                  /\ oret' = [op |-> "GetCmd", status |-> status, tx |-> FALSE,
                              len |-> 0]
              Leave(r) ==
                  Return(r, ReadCommandLineLeave(r.p, r.status),
                         IF r.status # 0 THEN ADI_CLI_STATUS_INVALID_COMMAND
                         ELSE ADI_CLI_STATUS_SUCCESS)
          IN  Leave(CliScanInputChars(Priv, escSeqState, inputChar, numAvail, hit))
    /\ UNCHANGED <<ringVars, nOffset, nAvail, nResult, dst, chRet, isrVars>>
    /\ UNCHANGED <<pBufferToWrite, isTxComplete, bufId, flStatus, flIssued,
                   txOutstanding, txBuf, txLog>>
    /\ UNCHANGED <<inputChar, maxCmd, histVars, apiVars, nvmVars>>

adi_cli_GetCmd == GetCmdEnter \/ GetCmdScan

(***************************************************************************)
(* SpecLine: a session whose transport delivers the bytes "hello", three   *)
(* ^H and "p", one receive interrupt per byte, while the foreground calls  *)
(* adi_cli_GetCmd again and again.  The interrupt may come between any two *)
(* foreground steps.  The receive buffer of the source holds 252 bytes and *)
(* cannot fill on these nine; in the scaled buffer a byte is delivered     *)
(* when there is room for it.                                              *)
(***************************************************************************)
HelloScript == <<104, 101, 108, 108, 111, 8, 8, 8, 112>>

DeliverScript ==
    /\ Len(accepted) < Len(HelloScript)
    /\ ADICircBufGetSpaceAvailable(nReadIndex, nWriteIndex, nSize) >= 1
    /\ adi_cli_RxCallback(HelloScript[Len(accepted) + 1], 0)

NextLine ==
    \/ DeliverScript
    \/ GetCmdEnter
    \/ GetCmdScan

SpecLine == InitSession(CmdLenLine) /\ [][NextLine]_vars

\* The line buffer contents [0, indexEnd).
LineText(str, end) == [i \in 1..end |-> str[i - 1]]

\* C16: from an empty line with echo enabled, once the bytes "hello", three
\* ^H and "p" have all been received and processed, the line buffer
\* [0, indexEnd) is "help", however the receive interrupts interleave with the
\* foreground calls.
C16_HelloHelp ==
    (pc = "idle" /\ delivered = HelloScript) =>
        LineText(cliString, indexEnd) = <<104, 101, 108, 112>>

(***************************************************************************)
(* SpecEdit: a session whose transport delivers any bytes of EditBytes.    *)
(***************************************************************************)
\* 'a', ^C, ^E, CR, ESC, '[', '1', '~'
EditBytes == {97, 3, 5, 13, 27, 91, 49, 126}

NextEdit ==
    \/ \E b \in EditBytes : Len(accepted) < MaxIn /\ adi_cli_RxCallback(b, 0)
    \/ GetCmdEnter
    \/ GetCmdScan

SpecEdit == InitSession(CmdLenEdit) /\ [][NextEdit]_vars

\* C17: after every processed input byte the edit line satisfies
\* 0 <= indexCur <= indexEnd <= APP_CFG_CLI_MAX_CMD_LENGTH - 1.
C17_IndexOrder ==
    pc = "idle" => (0 <= indexCur /\ indexCur <= indexEnd /\ indexEnd <= maxCmd - 1)

\* C18: in state CLI_MET_FINAL_CHAR every input byte returns the escape
\* decoder to CLI_MET_NO_CHAR.
C18_FinalToIdle ==
    [][(pc = "gc_scan" /\ pc' = "idle" /\ inputChar # EOF
            /\ escSeqState = CLI_MET_FINAL_CHAR) =>
           escSeqState' = CLI_MET_NO_CHAR]_vars

\* C19: a CR or LF processed while the escape decoder is in CLI_MET_NO_CHAR
\* makes adi_cli_GetCmd return success with the command equal to the line
\* buffer contents [0, indexEnd) at that moment, and that line is passed to
\* HistoryAppend exactly once.
C19_LineComplete ==
    [][(pc = "gc_scan" /\ pc' = "idle" /\ inputChar \in {13, 10}
            /\ escSeqState = CLI_MET_NO_CHAR) =>
           /\ cmdRet'.status = ADI_CLI_STATUS_SUCCESS
           /\ cmdRet'.cmd = LineText(cliString, indexEnd)
           /\ histCalls' = Append(histCalls, LineText(cliString, indexEnd))]_vars

\* C20: a ^C processed while the escape decoder is in CLI_MET_NO_CHAR makes
\* adi_cli_GetCmd return success with an empty command, whatever had been
\* typed, and leaves the history (headIndex, tailIndex, curIndex and all
\* entries) unchanged, with no call of HistoryAppend.
C20_BreakLine ==
    [][(pc = "gc_scan" /\ pc' = "idle" /\ inputChar = 3
            /\ escSeqState = CLI_MET_NO_CHAR) =>
           /\ cmdRet'.status = ADI_CLI_STATUS_SUCCESS
           /\ cmdRet'.cmd = <<>>
           /\ history' = history
           /\ histCalls' = histCalls]_vars

\* A ^C has been processed on a line that held typed characters, with a
\* command in the history.
C20_Witness ==
    /\ pc = "idle"
    /\ inputChar = 3
    /\ oret.op = "GetCmd"
    /\ cmdRet = [status |-> ADI_CLI_STATUS_SUCCESS, cmd |-> <<>>]
    /\ indexEnd > 0
    /\ Len(histCalls) > 0
    /\ history.headIndex # history.tailIndex

(***************************************************************************)
(* SpecIsr: a session in which both interrupt callbacks run between the    *)
(* foreground steps of adi_cli_GetCmd and adi_cli_FlushMessages.           *)
(***************************************************************************)
\* 'a', CR, ESC
IsrBytes == {97, 13, 27}

NextIsr ==
    \/ \E b \in IsrBytes : Len(accepted) < MaxIsr /\ adi_cli_RxCallback(b, 0)
    \/ GetCmdEnter
    \/ GetCmdScan
    \/ FlushBegin(0)
    \/ FlushEnd
    \/ adi_cli_TxCallback

SpecIsr == InitSession(CmdLenEdit) /\ [][NextIsr]_vars

\* What neither callback may change: the read index and size of the receive
\* buffer, the output buffer, the edit line, the escape decoder state and
\* the history.
IsrKept ==
    <<nSize, nReadIndex, cliBuffer, pBufferToWrite, bytesStored, bufId,
      cliString, indexCur, indexEnd, numCharsToPrint, escSeqState, echo,
      deferPrompt, displayPrompt, userIsTyping, displayCtrlChars, history,
      maxCmd>>

\* C15: adi_cli_RxCallback changes only the stored bytes and the write index
\* of the receive buffer (and the one-byte receive it re-arms), and
\* adi_cli_TxCallback changes only isTxComplete; neither changes the read
\* index, the edit line, the escape decoder state, the history or the output
\* buffer.
C15_IsrFootprint ==
    [][IF txOutstanding' < txOutstanding
       THEN /\ isTxComplete' = 1
            /\ IsrKept' = IsrKept
            /\ <<pBase, nWriteIndex, rxByte, rxArmed>>' =
                   <<pBase, nWriteIndex, rxByte, rxArmed>>
       ELSE (pc' = pc /\ rlast'.op = "Write") =>
               (IsrKept' = IsrKept /\ isTxComplete' = isTxComplete)]_vars

\* Both callbacks have run in a session with a typed character on the edit
\* line, a command in the history, the escape decoder inside a sequence and
\* bytes in the filling buffer.
C15_Witness ==
    /\ Len(accepted) = MaxIsr
    /\ Len(txLog) > 0
    /\ txOutstanding = 0
    /\ isTxComplete = 1
    /\ history.headIndex # history.tailIndex
    /\ escSeqState = CLI_MET_ESC_CHAR
    /\ bytesStored > 0

(***************************************************************************)
(* SpecHist: the functions of cli_history.c called in any order on the     *)
(* history of a created session.                                           *)
(***************************************************************************)
\* HistoryFlush calls HistoryInit: headIndex and tailIndex are set to 0 and
\* the entries are cleared; curIndex is not written.
HistoryFlush(h) ==
    [h EXCEPT !.list = [i \in 0..(HISTORY_DEPTH - 1) |-> <<>>],
              !.headIndex = 0, !.tailIndex = 0]

\* HISTORY_DEPTH + 1 distinct one-letter commands 'a', 'b', ..., the command
\* " a " and the command " ".
HistCommands ==
    {<<97 + i>> : i \in 0..HISTORY_DEPTH} \cup {<<32, 97, 32>>, <<32>>}

HistFrame ==
    UNCHANGED <<ringVars, fgVars, isrVars, outVars, cliString, indexCur, indexEnd,
                numCharsToPrint, escSeqState, echo, deferPrompt, displayPrompt,
                userIsTyping, displayCtrlChars, inputChar, cmdRet, memFault,
                maxCmd, apiVars, nvmVars>>

HistAppend(pCommand) ==
    /\ Len(hops) < MaxOps
    /\ history' = HistoryAppend(history, pCommand)
    /\ histCalls' = Append(histCalls, pCommand)
    /\ hops' = Append(hops, [op |-> "Append", arg |-> pCommand, found |-> FALSE,
                             pCommand |-> <<>>, cur |-> history.curIndex])
    /\ HistFrame

HistScrollUp ==
    /\ Len(hops) < MaxOps
    /\ LET r == HistoryScrollUp(history)
       IN  /\ history' = r.h
           /\ hops' = Append(hops, [op |-> "ScrollUp", arg |-> <<>>, found |-> r.found,
                                    pCommand |-> r.pCommand, cur |-> history.curIndex])
    /\ UNCHANGED histCalls
    /\ HistFrame

HistScrollDown ==
    /\ Len(hops) < MaxOps
    /\ LET r == HistoryScrollDown(history)
       IN  /\ history' = r.h
           /\ hops' = Append(hops, [op |-> "ScrollDown", arg |-> <<>>,
                                    found |-> r.found, pCommand |-> r.pCommand,
                                    cur |-> history.curIndex])
    /\ UNCHANGED histCalls
    /\ HistFrame

HistFlush ==
    /\ hops # <<>>
    /\ history' = HistoryFlush(history)
    /\ histCalls' = <<>>
    /\ hops' = <<>>
    /\ HistFrame

NextHist ==
    \/ \E pCommand \in HistCommands : HistAppend(pCommand)
    \/ HistScrollUp
    \/ HistScrollDown
    \/ HistFlush

SpecHist == InitSession(CmdLenEdit) /\ [][NextHist]_vars

\* The first HISTORY_DEPTH + 1 calls since the history was empty are appends
\* of pairwise distinct commands that are not empty after trimming.
DistinctAppendsFirst ==
    /\ Len(hops) >= HISTORY_DEPTH + 1
    /\ \A i \in 1..(HISTORY_DEPTH + 1) :
          /\ hops[i].op = "Append"
          /\ TrimWhiteSpaces(hops[i].arg) # <<>>
          /\ \A j \in 1..(HISTORY_DEPTH + 1) :
                i # j => TrimWhiteSpaces(hops[i].arg) # TrimWhiteSpaces(hops[j].arg)

\* C21: after HISTORY_DEPTH + 1 pairwise distinct non-empty commands are
\* appended to an empty history, the k-th of the scrollUp calls that follow
\* returns the k-th newest command for k = 1..HISTORY_DEPTH, and the next
\* one returns no entry.
C21_Eviction ==
    \A k \in 1..(HISTORY_DEPTH + 1) :
        (/\ Len(hops) = HISTORY_DEPTH + 1 + k
         /\ DistinctAppendsFirst
         /\ \A i \in 1..k : hops[HISTORY_DEPTH + 1 + i].op = "ScrollUp") =>
            IF k <= HISTORY_DEPTH
            THEN /\ hops[HISTORY_DEPTH + 1 + k].found
                 /\ hops[HISTORY_DEPTH + 1 + k].pCommand =
                        TrimWhiteSpaces(hops[HISTORY_DEPTH + 2 - k].arg)
            ELSE ~hops[HISTORY_DEPTH + 1 + k].found

\* The trimmed text of the latest append that stored or confirmed an entry.
RECURSIVE LastAppended(_)
LastAppended(calls) ==
    IF calls = <<>> THEN <<>>
    ELSE IF TrimWhiteSpaces(calls[Len(calls)]) # <<>>
         THEN TrimWhiteSpaces(calls[Len(calls)])
         ELSE LastAppended(SubSeq(calls, 1, Len(calls) - 1))

\* C22: appending a command whose trimmed text equals the most recently
\* appended entry leaves headIndex, tailIndex and every entry unchanged and
\* sets curIndex to headIndex.
C22_DuplicateAppend ==
    [][(/\ Len(histCalls') = Len(histCalls) + 1
        /\ TrimWhiteSpaces(histCalls'[Len(histCalls')]) # <<>>
        /\ TrimWhiteSpaces(histCalls'[Len(histCalls')]) = LastAppended(histCalls)) =>
           /\ history'.headIndex = history.headIndex
           /\ history'.tailIndex = history.tailIndex
           /\ history'.list = history.list
           /\ history'.curIndex = history.headIndex]_vars

\* A duplicate has been appended while the browse position was away from
\* headIndex and the most recent entry sat in the last slot (headIndex = 0).
C22_Witness ==
    /\ Len(hops) >= 3
    /\ hops[Len(hops)].op = "Append"
    /\ TrimWhiteSpaces(hops[Len(hops)].arg) = LastAppended(SubSeq(histCalls, 1, Len(histCalls) - 1))
    /\ hops[Len(hops)].cur # history.headIndex
    /\ history.headIndex = 0
    /\ history.tailIndex # 0
    /\ history.curIndex = 0

\* cur lies in the ring interval [tail, head] modulo HISTORY_DEPTH.
InRing(cur, tail, head) ==
    (cur - tail) % HISTORY_DEPTH <= (head - tail) % HISTORY_DEPTH

\* C23: after any sequence of append, scrollUp, scrollDown and reset,
\* curIndex lies in the ring interval [tailIndex, headIndex].
C23_CurInRing ==
    InRing(history.curIndex, history.tailIndex, history.headIndex)

\* C24: scrollUp with curIndex = tailIndex and scrollDown with curIndex =
\* headIndex return no entry and change nothing; a scrollDown that moves
\* curIndex onto headIndex returns no entry; a successful scrollUp followed
\* by scrollDown restores the previous curIndex.
C24_ScrollEnds ==
    [][(Len(hops') = Len(hops) + 1) =>
          /\ (hops'[Len(hops')].op = "ScrollUp" /\ history.curIndex = history.tailIndex) =>
                 (~hops'[Len(hops')].found /\ history' = history)
          /\ (hops'[Len(hops')].op = "ScrollDown" /\ history.curIndex = history.headIndex) =>
                 (~hops'[Len(hops')].found /\ history' = history)
          /\ (hops'[Len(hops')].op = "ScrollDown"
                  /\ history'.curIndex = history'.headIndex) =>
                 ~hops'[Len(hops')].found
          /\ (/\ hops'[Len(hops')].op = "ScrollDown"
              /\ hops # <<>>
              /\ hops[Len(hops)].op = "ScrollUp"
              /\ hops[Len(hops)].found) =>
                 history'.curIndex = hops[Len(hops)].cur]_vars

(***************************************************************************)
(* The dispatcher: adi_cli_Dispatch of adi_cli.c, CliParse, CliDispatch,   *)
(* CliParseParams and CliScanParams of cli_private.c and                   *)
(* DispatchGetCommandDetails of cli_dispatch.c.  A dispatch table is a     *)
(* sequence of records [pName, pParamList, pfFunc, ret]: pfFunc names the  *)
(* command function and ret is what that function returns.  The messages   *)
(* go through adi_cli_PrintMessage; the model records which message was    *)
(* printed and with which argument.                                        *)
(***************************************************************************)
\* APP_CFG_CLI_MAX_PARAM_COUNT of the application's app_cfg.h, scaled down.
MaxParamCount == 2

\* The two delimiter strings: " ,;\t" and " \"'".
CmdDelims == {32, 44, 59, 9}
StrDelims == {32, 34, 39}

DATATYPE_STRING == 0
DATATYPE_FLOAT == 1
DATATYPE_INTEGER == 2
DATATYPE_CHAR == 3

RECURSIVE SkipDelims(_, _)
SkipDelims(str, delims) ==
    IF str # <<>> /\ Head(str) \in delims THEN SkipDelims(Tail(str), delims) ELSE str

RECURSIVE TokenLen(_, _)
TokenLen(str, delims) ==
    IF str = <<>> \/ Head(str) \in delims THEN 0 ELSE 1 + TokenLen(Tail(str), delims)

\* strtok on the string that is left: the token, whether there is one, and
\* what is left after the delimiter that ended it.
strtok(str, delims) ==
    LET Cut(t, n) == [found |-> t # <<>>, tok |-> SubSeq(t, 1, n),
                      rest |-> SubSeq(t, n + 2, Len(t))]
        From(t) == Cut(t, TokenLen(t, delims))
    IN  From(SkipDelims(str, delims))

tolower(c) == IF c \in 65..90 THEN c + 32 ELSE c

ConvertToLower(pSrc, maxSize) ==
    [i \in 1..(IF Len(pSrc) < maxSize THEN Len(pSrc) ELSE maxSize) |-> tolower(pSrc[i])]

\* StrnLen of cli_utils.c: the loop runs while len <= maxLen.
StrnLen(pStr, maxLen) == IF Len(pStr) <= maxLen THEN Len(pStr) ELSE maxLen + 1

RECURSIVE DigitsValue(_, _)
DigitsValue(str, acc) ==
    IF str # <<>> /\ Head(str) \in 48..57
    THEN DigitsValue(Tail(str), 10 * acc + (Head(str) - 48))
    ELSE acc

\* sscanf(pParamToken, "%li", ...) and sscanf(pParamToken, "%lf", ...) on a
\* token of digits 1..9, letters and signs: an optional sign and the longest
\* run of digits, which must not be empty.  sscanf(pParamToken, "%c", ...)
\* takes the first character of the token.
ScanNumber(pParamToken) ==
    LET Body(t, sign) == [ok |-> t # <<>> /\ Head(t) \in 48..57,
                          n |-> sign * DigitsValue(t, 0)]
    IN  IF pParamToken[1] = 45 THEN Body(Tail(pParamToken), -1)
        ELSE IF pParamToken[1] = 43 THEN Body(Tail(pParamToken), 1)
        ELSE Body(pParamToken, 1)

\* The PARAM value a token of the given type is stored as.
ScanValue(pParamToken, dataType) ==
    IF dataType = DATATYPE_STRING
    THEN [ok |-> TRUE, v |-> [t |-> dataType, s |-> pParamToken, n |-> 0]]
    ELSE IF dataType \in {DATATYPE_FLOAT, DATATYPE_INTEGER}
    THEN [ok |-> ScanNumber(pParamToken).ok,
          v |-> [t |-> dataType, s |-> <<>>, n |-> ScanNumber(pParamToken).n]]
    ELSE IF dataType = DATATYPE_CHAR
    THEN [ok |-> TRUE, v |-> [t |-> dataType, s |-> <<>>, n |-> pParamToken[1]]]
    ELSE [ok |-> FALSE, v |-> [t |-> dataType, s |-> <<>>, n |-> 0]]

\* sArgs after memset(&pDispatchInfo->sArgs, 0, ...).
ArgsZero == [c |-> 0, v |-> [i \in 0..(MaxParamCount - 1) |-> [t |-> -1, s |-> <<>>, n |-> 0]]]

\* CliScanParams on the parser state ps = [rest, sArgs, reported, status]:
\* no token leaves sArgs alone and returns 0.
CliScanParams(pPattern, ps, argIndex, dataType) ==
    LET Store(tk, sv) ==
            [ps EXCEPT !.rest = tk.rest,
                       !.status = IF sv.ok THEN 0 ELSE 1,
                       !.sArgs = IF sv.ok
                                 THEN [c |-> ps.sArgs.c + 1,
                                       v |-> [ps.sArgs.v EXCEPT ![argIndex] = sv.v]]
                                 ELSE ps.sArgs]
        Scan(tk) ==
            IF tk.found
            THEN Store(tk, ScanValue(tk.tok, dataType))
            ELSE [ps EXCEPT !.rest = tk.rest, !.status = 0]
    IN  Scan(strtok(ps.rest, pPattern))

\* One pass of the for loop of CliParseParams.
ParseOneParam(pParamList, ps, i) ==
    IF pParamList[i + 1] \in {115, 83}
    THEN CliScanParams(StrDelims, ps, i, DATATYPE_STRING)
    ELSE IF pParamList[i + 1] \in {102, 70}
    THEN CliScanParams(CmdDelims, ps, i, DATATYPE_FLOAT)
    ELSE IF pParamList[i + 1] \in {100, 120, 68, 88}
    THEN CliScanParams(CmdDelims, ps, i, DATATYPE_INTEGER)
    ELSE IF pParamList[i + 1] \in {99, 67}
    THEN CliScanParams(CmdDelims, ps, i, DATATYPE_CHAR)
    ELSE ps

RECURSIVE ParseLoop(_, _, _, _)
ParseLoop(pParamList, ps, i, paramCount) ==
    IF i < paramCount
    THEN ParseLoop(pParamList, ParseOneParam(pParamList, ps, i), i + 1, paramCount)
    ELSE ps

\* The while (1) loop of CliParseParams.
RECURSIVE ExtraLoop(_)
ExtraLoop(ps) ==
    LET Warn(tk) ==
            IF tk.found
            THEN ExtraLoop([ps EXCEPT !.rest = tk.rest,
                                      !.reported = Append(ps.reported,
                                          [msg |-> "Extra parameter ignored",
                                           arg |-> tk.tok])])
            ELSE [ps EXCEPT !.rest = tk.rest]
    IN  Warn(strtok(ps.rest, CmdDelims))

CliParseParams(pParamList, ps) ==
    LET Report(q) ==
            IF q.status # 0
            THEN [q EXCEPT !.reported = Append(q.reported,
                                            [msg |-> "Invalid Arguments", arg |-> <<>>])]
            ELSE q
        Parse(paramCount) ==
            IF paramCount <= MaxParamCount
            THEN ParseLoop(pParamList, [ps EXCEPT !.status = 0], 0, paramCount)
            ELSE [ps EXCEPT !.status = 1]
    IN  ExtraLoop(Report(Parse(StrnLen(pParamList, MaxParamCount))))

\* CliDispatch: the command function is called when CliParseParams returns 0.
CliDispatch(pDispatchRecord, ps) ==
    LET Call(q) ==
            IF q.status = 0
            THEN [q EXCEPT !.invoked = Append(q.invoked,
                                           [pfFunc |-> pDispatchRecord.pfFunc,
                                            pArgs |-> q.sArgs]),
                           !.status = pDispatchRecord.ret]
            ELSE q
    IN  Call(CliParseParams(pDispatchRecord.pParamList, ps))

\* A search that compares the first strlen(pCmdLower) characters only.
RECURSIVE DispatchSearchPrefix(_, _, _, _)
DispatchSearchPrefix(pCmdLower, pDispatchTable, i, maxSize) ==
    IF i > Len(pDispatchTable) THEN 0
    ELSE IF /\ Len(pCmdLower) <= Len(pDispatchTable[i].pName)
            /\ pCmdLower = SubSeq(ConvertToLower(pDispatchTable[i].pName, maxSize),
                                  1, Len(pCmdLower))
    THEN i
    ELSE DispatchSearchPrefix(pCmdLower, pDispatchTable, i + 1, maxSize)

\* DispatchGetCommandDetails without the test of the two lengths.
DispatchGetCommandDetailsNoLength(pCommandToken, pDispatchTable, maxSize) ==
    DispatchSearchPrefix(ConvertToLower(pCommandToken, maxSize), pDispatchTable, 1,
                         maxSize)

\* The loop of DispatchGetCommandDetails from record i on: the index of the
\* record found, 0 for NULL.
RECURSIVE DispatchSearch(_, _, _, _)
DispatchSearch(pCmdLower, pDispatchTable, i, maxSize) ==
    IF i > Len(pDispatchTable) THEN 0
    ELSE IF Len(pCmdLower) # Len(pDispatchTable[i].pName)
    THEN DispatchSearch(pCmdLower, pDispatchTable, i + 1, maxSize)
    ELSE IF pCmdLower = ConvertToLower(pDispatchTable[i].pName, maxSize)
    THEN i
    ELSE DispatchSearch(pCmdLower, pDispatchTable, i + 1, maxSize)

DispatchGetCommandDetails(pCommandToken, pDispatchTable, maxSize) ==
    DispatchSearch(ConvertToLower(pCommandToken, maxSize), pDispatchTable, 1, maxSize)

\* The names of internalDispatchTable: "help" and "echo".
InternalNames == {<<104, 101, 108, 112>>, <<101, 99, 104, 111>>}

\* CliParse for a line whose command name is none of InternalNames.
CliParse(pCommand, pDispatchTable, maxSize) ==
    LET Start(tk) == [rest |-> tk.rest, sArgs |-> ArgsZero, reported |-> <<>>,
                      invoked |-> <<>>, status |-> 0, record |-> 0]
        Usage(q, tk) ==
            IF q.status # 0
            THEN [q EXCEPT !.reported = Append(q.reported,
                                            [msg |-> "Incorrect usage", arg |-> tk.tok])]
            ELSE q
        Found(tk, i) ==
            IF i # 0
            THEN Usage(CliDispatch(pDispatchTable[i], [Start(tk) EXCEPT !.record = i]), tk)
            ELSE [Start(tk) EXCEPT !.reported = <<[msg |-> "Command not found",
                                                   arg |-> tk.tok]>>]
        Token(tk) ==
            IF tk.found
            THEN Found(tk, DispatchGetCommandDetails(tk.tok, pDispatchTable, maxSize))
            ELSE Start(tk)
    IN  Token(strtok(pCommand, CmdDelims))

\* The caller holds the handle of a session that has its temporary memory.
Usable == api.handle = "pInfo" /\ api.pTempMemory # "NULL"

\* The session state adi_cli_Dispatch leaves alone.
DispatchFrame ==
    UNCHANGED <<ringVars, fgVars, isrVars, outVars, editVars, histVars, nvmVars>>

\* adi_cli_Dispatch(hCli, pCommand, pDispatchTable, numRecords) with
\* numRecords the length of the table; null names the argument that is NULL:
\* a NULL pCommand is trimmed to the empty string, and a NULL table is passed
\* with numRecords = 0.
adi_cli_Dispatch(null, pCommand, pDispatchTable) ==
    /\ pc = "idle"
    /\ Usable
    /\ Len(pCommand) < maxCmd
    /\ strtok(TrimWhiteSpaces(pCommand), CmdDelims).tok \notin InternalNames
    /\ null = "pCommand" => pCommand = <<>>
    /\ null = "pDispatchTable" => pDispatchTable = <<>>
    /\ IF null = "hCli"
       THEN /\ api' = [api EXCEPT !.call = [op |-> "Dispatch", null |-> null,
                                            status |-> ADI_CLI_STATUS_NULL_PTR]]
            /\ UNCHANGED disp
       ELSE LET Return(q) ==
                    /\ disp' = [pCommand |-> pCommand, pDispatchTable |-> pDispatchTable,
                                sArgs |-> q.sArgs, record |-> q.record,
                                invoked |-> q.invoked, reported |-> q.reported,
                                status |-> q.status]
                    /\ api' = [api EXCEPT !.call =
                                  [op |-> "Dispatch", null |-> null,
                                   status |-> IF q.status # 0
                                              THEN ADI_CLI_STATUS_INVALID_COMMAND
                                              ELSE ADI_CLI_STATUS_SUCCESS]]
            IN  Return(CliParse(TrimWhiteSpaces(pCommand), pDispatchTable, maxCmd))
    /\ DispatchFrame

(***************************************************************************)
(* SpecDispatch: adi_cli_Dispatch called with lines over the command names *)
(* "ab", "AB", "a", "abc", "b", "c" and the parameter tokens "1" and "a",  *)
(* on three dispatch tables.                                               *)
(***************************************************************************)
\* Largest number of parameter tokens of a line.
MaxArgs == 3

DispNames == {<<97, 98>>, <<65, 66>>, <<97>>, <<97, 98, 99>>, <<98>>, <<99>>}
ArgTokens == {<<49>>, <<97>>}

RECURSIVE JoinArgs(_)
JoinArgs(args) ==
    IF args = <<>> THEN <<>> ELSE <<32>> \o Head(args) \o JoinArgs(Tail(args))

DispLines ==
    {<<>>, <<32>>} \cup
    {name \o JoinArgs(args) :
        name \in DispNames, args \in UNION {[1..k -> ArgTokens] : k \in 0..MaxArgs}}

\* "ab" (dd), "abc" (s), "AB" (no parameters), "b" (cd; its function fails)
DispTable1 ==
    <<[pName |-> <<97, 98>>, pParamList |-> <<100, 100>>, pfFunc |-> "f1", ret |-> 0],
      [pName |-> <<97, 98, 99>>, pParamList |-> <<115>>, pfFunc |-> "f2", ret |-> 0],
      [pName |-> <<65, 66>>, pParamList |-> <<>>, pfFunc |-> "f3", ret |-> 0],
      [pName |-> <<98>>, pParamList |-> <<99, 100>>, pfFunc |-> "f4", ret |-> 1]>>

\* "Ab" (d), "a" (ddd: more than MaxParamCount), "b" (qf: q is no type)
DispTable2 ==
    <<[pName |-> <<65, 98>>, pParamList |-> <<100>>, pfFunc |-> "f1", ret |-> 0],
      [pName |-> <<97>>, pParamList |-> <<100, 100, 100>>, pfFunc |-> "f2", ret |-> 0],
      [pName |-> <<98>>, pParamList |-> <<113, 102>>, pfFunc |-> "f3", ret |-> 0]>>

DispTables == {DispTable1, DispTable2, <<>>}

NextDispatch ==
    \E null \in {"none", "hCli", "pCommand", "pDispatchTable"} :
        \E pCommand \in DispLines : \E pDispatchTable \in DispTables :
            adi_cli_Dispatch(null, pCommand, pDispatchTable)

SpecDispatch == InitSession(CmdLenLine) /\ [][NextDispatch]_vars

\* The command name of the line of the last adi_cli_Dispatch call that got
\* past the test of hCli, and the tokens that follow it.
DispToken == strtok(TrimWhiteSpaces(disp.pCommand), CmdDelims)

RECURSIVE Tokens(_)
Tokens(str) ==
    IF strtok(str, CmdDelims).found
    THEN <<strtok(str, CmdDelims).tok>> \o Tokens(strtok(str, CmdDelims).rest)
    ELSE <<>>

Dispatched ==
    /\ api.call.op = "Dispatch"
    /\ api.call.null # "hCli"
    /\ DispToken.found
    /\ DispToken.tok \notin InternalNames

SameIgnoringCase(a, b) ==
    /\ Len(a) = Len(b)
    /\ \A k \in 1..Len(a) : tolower(a[k]) = tolower(b[k])

\* The records whose name has the length of the command name and equals it
\* ignoring letter case.
Matching ==
    {i \in 1..Len(disp.pDispatchTable) :
        SameIgnoringCase(DispToken.tok, disp.pDispatchTable[i].pName)}

\* C25: for a command name that is no built-in name, the record dispatched
\* is the first record of the table whose name has the same length as the
\* token and equals it ignoring letter case; no record (so none that the
\* token is a strict prefix of, or that is a strict prefix of the token) is
\* dispatched otherwise, and only the function of that record is called.
C25_FirstMatch ==
    Dispatched =>
        IF Matching = {}
        THEN disp.record = 0 /\ disp.invoked = <<>>
        ELSE /\ disp.record \in Matching
             /\ \A i \in Matching : disp.record <= i
             /\ \A k \in 1..Len(disp.invoked) :
                   disp.invoked[k].pfFunc = disp.pDispatchTable[disp.record].pfFunc

\* "AB" on a table with "ab" first and "AB" third: the function of "ab" ran.
C25_Witness ==
    /\ Dispatched
    /\ disp.record = 1
    /\ DispToken.tok # disp.pDispatchTable[1].pName
    /\ \E j \in Matching : j > 1
    /\ disp.invoked # <<>>

\* A token sscanf reads a number from: digits after an optional sign.
NumberToken(tok) ==
    \/ tok[1] \in 48..57
    \/ tok[1] \in {43, 45} /\ Len(tok) >= 2 /\ tok[2] \in 48..57

\* The parameter at place i of the matched record has a token and the token
\* is no value of the declared type (a number for d, x, f).
FailsToParse(i) ==
    /\ i <= Len(disp.pDispatchTable[disp.record].pParamList)
    /\ i <= Len(Tokens(DispToken.rest))
    /\ disp.pDispatchTable[disp.record].pParamList[i] \in {100, 120, 68, 88, 102, 70}
    /\ ~NumberToken(Tokens(DispToken.rest)[i])

\* C26: when the token of any declared parameter of the matched record fails
\* to parse as its declared type, "Invalid Arguments" is reported, the
\* command function is not called and adi_cli_Dispatch returns a failure
\* status.
C26_ParseAborts ==
    (/\ Dispatched
     /\ disp.record # 0
     /\ \E i \in 1..MaxArgs : FailsToParse(i)) =>
        /\ \E k \in 1..Len(disp.reported) : disp.reported[k].msg = "Invalid Arguments"
        /\ disp.invoked = <<>>
        /\ api.call.status # ADI_CLI_STATUS_SUCCESS

\* C27: a line whose command name is no built-in name and matches no record
\* calls no command function, reports that the command was not found, and
\* adi_cli_Dispatch returns ADI_CLI_STATUS_INVALID_COMMAND.
C27_NotFound ==
    (Dispatched /\ Matching = {}) =>
        /\ disp.invoked = <<>>
        /\ \E k \in 1..Len(disp.reported) : disp.reported[k].msg = "Command not found"
        /\ api.call.status = ADI_CLI_STATUS_INVALID_COMMAND

(***************************************************************************)
(* SpecApi: the public functions called with any of their pointer          *)
(* arguments NULL, with memory sizes on both sides of the required ones,   *)
(* and adi_cli_Init called with the configurations of Users.  A call on a  *)
(* session is made with the handle adi_cli_Create returned, and only while *)
(* the session has its temporary memory.                                   *)
(***************************************************************************)
\* sizeof(ADI_CLI_INFO), scaled down.
StateMemNumBytes == 2
ADI_CLI_TEMP_MEM_NUM_BYTES == 8192

\* The state the calls made with a NULL argument are compared on: the
\* session and the caller's handle.
SessionKept ==
    <<ringVars, fgVars, isrVars, outVars, editVars, histVars, disp, api.handle,
      api.config, api.pTempMemory>>

\* adi_cli_Create(phCli, pStateMemory, stateMemorySize, pTempMemory,
\* tempMemorySize); api.handle is the variable phCli points to.
adi_cli_CreateWith(phCli, pStateMemory, stateMemorySize, pTempMemory, tempMemorySize) ==
    LET null == IF phCli = "NULL" THEN "phCli"
                ELSE IF pStateMemory = "NULL" THEN "pStateMemory"
                ELSE IF pTempMemory = "NULL" THEN "pTempMemory"
                ELSE "none"
        Call(status) == [op |-> "Create", null |-> null, status |-> status]
    IN  /\ pc = "idle"
        /\ txOutstanding = 0
        /\ IF phCli = "NULL" \/ pStateMemory = "NULL"
           THEN /\ api' = [api EXCEPT !.call = Call(ADI_CLI_STATUS_NULL_PTR)]
                /\ UNCHANGED <<ringVars, fgVars, isrVars, outVars, editVars, histVars,
                               disp, nvmVars>>
           ELSE IF stateMemorySize < StateMemNumBytes
           THEN /\ api' = [api EXCEPT
                              !.handle = "NULL",
                              !.call = Call(ADI_CLI_STATUS_INSUFFICIENT_STATE_MEMORY)]
                /\ UNCHANGED <<ringVars, fgVars, isrVars, outVars, editVars, histVars,
                               disp, nvmVars>>
           ELSE IF tempMemorySize < ADI_CLI_TEMP_MEM_NUM_BYTES
           THEN /\ CreateState(ADI_CLI_STATUS_INSUFFICIENT_TEMP_MEMORY)
                /\ disp' = DispNone
                /\ api' = [api EXCEPT
                              !.handle = "pInfo", !.config = "NULL",
                              !.supplied = "none", !.pTempMemory = "NULL",
                              !.call = Call(ADI_CLI_STATUS_INSUFFICIENT_TEMP_MEMORY)]
           ELSE /\ CreateState(ADI_CLI_STATUS_SUCCESS)
                /\ disp' = DispNone
                /\ api' = [api EXCEPT
                              !.handle = "pInfo", !.config = "NULL",
                              !.supplied = "none", !.pTempMemory = pTempMemory,
                              !.call = Call(ADI_CLI_STATUS_SUCCESS)]

\* adi_cli_Init(hCli, pConfig): hUser is the hUser of the structure pConfig
\* points to, "NULL" for pConfig = NULL; st is what pfReceiveAsync returns.
\* A session is initialised once, after adi_cli_Create.
adi_cli_Init(hCli, hUser, st) ==
    /\ pc = "idle"
    /\ IF hUser = "NULL" \/ hCli = "NULL"
       THEN /\ api' = [api EXCEPT !.call = [op |-> "Init",
                                            null |-> IF hUser = "NULL" THEN "pConfig"
                                                     ELSE "hCli",
                                            status |-> ADI_CLI_STATUS_NULL_PTR]]
            /\ UNCHANGED <<ringVars, fgVars, isrVars, outVars, editVars, histVars, disp, nvmVars>>
       ELSE /\ Usable
            /\ api.config = "NULL"
            /\ api' = [api EXCEPT
                          !.supplied = hUser, !.userConfig = "pInfo",
                          !.config = "pInfo", !.passed = "pInfo",
                          !.call = [op |-> "Init", null |-> "none",
                                    status |-> IF st # 0
                                               THEN ADI_CLI_STATUS_COMM_ERROR
                                               ELSE ADI_CLI_STATUS_SUCCESS]]
            /\ rxArmed' = (st = 0)
            /\ StorePriv(CliInit(Priv))
            /\ oret' = [op |-> "Init",
                        status |-> IF st # 0 THEN ADI_CLI_STATUS_COMM_ERROR
                                   ELSE ADI_CLI_STATUS_SUCCESS,
                        tx |-> FALSE, len |-> 0]
            /\ UNCHANGED <<ringVars, fgVars, rxByte, rxRet>>
            /\ UNCHANGED <<pBufferToWrite, isTxComplete, bufId, flStatus, flIssued,
                           txOutstanding, txBuf, txLog>>
            /\ UNCHANGED <<escSeqState, inputChar, cmdRet, maxCmd, histVars, disp, nvmVars>>

\* adi_cli_PutBuffer(hCli, pData, numBytes) with hCli or pData NULL.
adi_cli_PutBufferNull(null) ==
    /\ pc = "idle"
    /\ api' = [api EXCEPT !.call = [op |-> "PutBuffer", null |-> null,
                                    status |-> ADI_CLI_STATUS_SUCCESS]]
    /\ UNCHANGED <<ringVars, fgVars, isrVars, outVars, editVars, histVars, disp, nvmVars>>

\* Number of bytes the transport delivers in a run of SpecApi.
MaxApiRx == 1

\* The lines and the table of the adi_cli_Dispatch calls of SpecApi.
ApiLines == {<<>>, <<97, 98>>}

NextApi ==
    \/ \E phCli \in {"NULL", "phCli"}, pStateMemory \in {"NULL", "state"},
          stateMemorySize \in {StateMemNumBytes - 1, StateMemNumBytes},
          pTempMemory \in {"NULL", "temp"},
          tempMemorySize \in {ADI_CLI_TEMP_MEM_NUM_BYTES - 1, ADI_CLI_TEMP_MEM_NUM_BYTES} :
             adi_cli_CreateWith(phCli, pStateMemory, stateMemorySize, pTempMemory,
                                tempMemorySize)
    \/ \E hCli \in {"NULL", api.handle}, hUser \in Users \cup {"NULL"}, st \in {0, 1} :
          adi_cli_Init(hCli, hUser, st)
    \/ \E null \in {"none", "hCli", "pCommand", "pDispatchTable"} :
          \E pCommand \in ApiLines : \E pDispatchTable \in {DispTable2, <<>>} :
              adi_cli_Dispatch(null, pCommand, pDispatchTable)
    \/ \E null \in {"hCli", "pData"} : adi_cli_PutBufferNull(null)
    \/ Usable /\ adi_cli_PutBuffer(<<1>>)
    \/ Usable /\ api.config # "NULL" /\ FlushBegin(0)
    \/ FlushEnd
    \/ adi_cli_TxCallback
    \/ /\ Usable
       /\ api.config # "NULL"
       /\ Len(accepted) < MaxApiRx
       /\ adi_cli_RxCallback(1, 0)

SpecApi == InitSession(CmdLenEdit) /\ [][NextApi]_vars

\* The pointer arguments the documentation of adi_cli.h lists as checked.
CheckedPointers(op) ==
    IF op = "Create" THEN {"phCli", "pStateMemory", "pTempMemory"}
    ELSE IF op = "Dispatch" THEN {"hCli", "pCommand", "pDispatchTable"}
    ELSE IF op = "PutBuffer" THEN {"hCli"}
    ELSE {}

\* C28: a call of adi_cli_Create, adi_cli_Dispatch or adi_cli_PutBuffer made
\* with NULL for its handle or for a pointer its documentation lists as
\* checked returns ADI_CLI_STATUS_NULL_PTR and changes no session state.
C28_NullPointers ==
    [][IF /\ api'.call # api.call
          /\ api'.call.null \in CheckedPointers(api'.call.op)
       THEN /\ api'.call.status = ADI_CLI_STATUS_NULL_PTR
            /\ SessionKept' = SessionKept
       ELSE TRUE]_vars

\* C29: after adi_cli_Create was called with a phCli that is not NULL and
\* returned a status other than ADI_CLI_STATUS_SUCCESS, the handle phCli
\* points to is NULL.
C29_FailedCreateNullHandle ==
    (/\ api.call.op = "Create"
     /\ api.call.null # "phCli"
     /\ api.call.status # ADI_CLI_STATUS_SUCCESS) =>
        api.handle = "NULL"

\* C30: pfReceiveAsync and pfTransmitAsync are called with the hUser the
\* caller supplied in the configuration passed to adi_cli_Init, and the
\* caller's configuration is as the caller supplied it.
C30_UserContext ==
    api.supplied # "none" =>
        /\ api.passed = api.supplied
        /\ api.userConfig = api.supplied

(***************************************************************************)
(* SpecSpace: adi_cli_GetFreeMessageSpace between the appends and the      *)
(* flushes of a session.                                                   *)
(***************************************************************************)
\* adi_cli_GetFreeMessageSpace(hCli, pFreeSpace) with both pointers set.
adi_cli_GetFreeMessageSpace ==
    /\ pc = "idle"
    /\ api' = [api EXCEPT !.pFreeSpace = ADI_CLI_MAX_SIZE - bytesStored]
    /\ oret' = [op |-> "GetFreeMessageSpace", status |-> ADI_CLI_STATUS_SUCCESS,
                tx |-> FALSE, len |-> 0]
    /\ UNCHANGED <<cliBuffer, pBufferToWrite, bytesStored, isTxComplete, bufId,
                   flStatus, flIssued, txOutstanding, txBuf, txLog, putLog>>
    /\ UNCHANGED <<ringVars, fgVars, isrVars, editVars, histVars, disp, nvmVars>>

NextSpace ==
    \/ Appends
    \/ adi_cli_GetFreeMessageSpace
    \/ FlushBegin(0)
    \/ FlushEnd
    \/ adi_cli_TxCallback

SpecSpace == InitOut /\ [][NextSpace]_vars

\* C31: an adi_cli_PutBuffer or adi_cli_PutString call that follows
\* adi_cli_GetFreeMessageSpace immediately succeeds when its length is at
\* most the value written to pFreeSpace (and fails when it is longer).
C31_FreeSpaceUsable ==
    [][(oret.op = "GetFreeMessageSpace" /\ oret'.op \in {"PutBuffer", "PutString"}) =>
          (oret'.status = ADI_CLI_STATUS_SUCCESS <=> oret'.len <= api.pFreeSpace)]_vars

(***************************************************************************)
(* SpecPrint: adi_cli_PrintMessage with a message type other than "RAW"    *)
(* and "DBGRAW".  pMsgString is the text vsnprintf has formatted; the      *)
(* types are "" (INFO_MSG) and a one character stand-in for "Warn : ".     *)
(***************************************************************************)
MsgTypes == {<<>>, <<87>>}

\* CopyToBuffer(pMsgType), its result dropped, then
\* CopyToBuffer(pMsgStringToCopy) with pMsgString and "\n\r".
adi_cli_PrintMessage(pMsgType, pMsgString) ==
    LET Second(res) ==
            CopyToBuffer(res.buf, res.stored, pMsgString \o <<10, 13>>)
        Store(res) ==
            /\ Len(putLog) + (res.stored - bytesStored) <= MaxPut
            /\ cliBuffer' = [cliBuffer EXCEPT ![pBufferToWrite] = res.buf]
            /\ bytesStored' = res.stored
            /\ putLog' = putLog \o SubSeq(Payload(res.buf, res.stored),
                                          bytesStored + 1, res.stored)
            /\ oret' = [op |-> "PrintMessage", status |-> res.status, tx |-> FALSE,
                        len |-> Len(pMsgType) + Len(pMsgString) + 2]
    IN  /\ pc = "idle"
        /\ Store(Second(CopyToBuffer(cliBuffer[pBufferToWrite], bytesStored, pMsgType)))
        /\ UNCHANGED <<pBufferToWrite, isTxComplete, bufId, flStatus, flIssued,
                       txOutstanding, txBuf, txLog>>
        /\ UNCHANGED <<ringVars, fgVars, isrVars, editVars, histVars, apiVars, nvmVars>>

NextPrint ==
    \/ \E pMsgType \in MsgTypes : \E pMsgString \in CharsUpTo(MaxLen) :
          adi_cli_PrintMessage(pMsgType, pMsgString)
    \/ \E msg \in CharsUpTo(MaxLen) : adi_cli_PrintMessageRaw(msg)
    \/ FlushBegin(0)
    \/ FlushEnd
    \/ adi_cli_TxCallback

SpecPrint == InitOut /\ [][NextPrint]_vars

\* C32: an adi_cli_PrintMessage call that returns failure leaves bytesStored
\* and the contents of the buffer as they were.
C32_PrintAllOrNothing ==
    [][(/\ pc = "idle"
        /\ pc' = "idle"
        /\ oret'.op = "PrintMessage"
        /\ oret'.status # 0) =>
           (bytesStored' = bytesStored /\ cliBuffer' = cliBuffer)]_vars


(***************************************************************************)
(* SpecType: a session whose transport delivers printable characters and   *)
(* the single-byte editing keys, so that the cursor can be moved inside a  *)
(* full line and a key can arrive while echo is pending.                   *)
(***************************************************************************)
\* 'a', 'b', ^B, ^H, ^K
TypeBytes == {97, 98, 2, 8, 11}
MaxType == 5

NextType ==
    \/ \E b \in TypeBytes : Len(accepted) < MaxType /\ adi_cli_RxCallback(b, 0)
    \/ GetCmdEnter
    \/ GetCmdScan

SpecType == InitSession(CmdLenEdit) /\ [][NextType]_vars

\* The foreground step that processes the printable byte inputChar with the
\* cursor inside the line and nothing pending to echo.
InsertStep ==
    /\ pc = "gc_scan" /\ pc' = "idle"
    /\ inputChar # EOF /\ ~iscntrl(inputChar)
    /\ escSeqState = CLI_MET_NO_CHAR
    /\ numCharsToPrint = 0
    /\ indexCur <= indexEnd /\ indexEnd <= maxCmd - 1

\* line[0..k) + c + line[k..end), cut to at most n characters.
InsertedLine(line, k, c, n) ==
    LET full == SubSeq(line, 1, k) \o <<c>> \o SubSeq(line, k + 1, Len(line))
    IN  SubSeq(full, 1, IF Len(full) < n THEN Len(full) ELSE n)

\* C33: a printable character typed at cursor k of a line below capacity
\* gives line[0..k) + c + line[k..end) with indexEnd one more; typed into a
\* line of APP_CFG_CLI_MAX_CMD_LENGTH - 1 characters it is stored at the
\* cursor, the characters after it move right and the last one is dropped.
C33_InsertChar ==
    [][InsertStep =>
         /\ LineText(cliString', indexEnd') =
                InsertedLine(LineText(cliString, indexEnd), indexCur, inputChar,
                             maxCmd - 1)
         /\ indexEnd' = IF indexEnd < maxCmd - 1 THEN indexEnd + 1 ELSE indexEnd]_vars


\* The foreground step that processes a byte outside an escape sequence
\* with echo enabled and no further byte in the receive buffer.
LastByteStep ==
    /\ pc = "gc_scan" /\ pc' = "idle"
    /\ inputChar # EOF
    /\ escSeqState = CLI_MET_NO_CHAR
    /\ echo /\ ~memFault
    /\ ADICircBufGetNumBytesAvailable(nReadIndex, nWriteIndex, nSize) = 0

\* C34: with echo enabled, once the foreground has processed a byte and the
\* receive buffer is empty, numCharsToPrint is 0, whatever the byte was (a
\* printable character, a cursor key, backspace or ^K), and after a printable
\* character inserted below capacity indexCur is one past the place it was
\* stored at.
C34_EchoSettled ==
    [][LastByteStep =>
         /\ numCharsToPrint' = 0
         /\ (~iscntrl(inputChar) /\ indexEnd < maxCmd - 1) =>
                indexCur' = indexCur + numCharsToPrint + 1]_vars


\* C37: the index CliInsertChar stores the typed character at,
\* indexCur + numCharsToPrint, never exceeds APP_CFG_CLI_MAX_CMD_LENGTH - 1,
\* and no store lands outside cliString, whatever bytes arrive and however
\* the receive interrupts interleave with the foreground.
C37_StoreInRange ==
    /\ ~memFault
    /\ indexCur + numCharsToPrint <= maxCmd - 1


\* The edit line indices and what has been handed to the output buffer.
PromptKept == <<indexCur, indexEnd, numCharsToPrint, displayPrompt, putLog>>

ADICircBufFlush(r, w, size, n) ==
    LET nNumBytesAvailable == ADICircBufGetNumBytesAvailable(r, w, size)
        nNumBytes == IF nNumBytesAvailable < n THEN nNumBytesAvailable ELSE n
        nReadIndex1 == r + nNumBytes
    IN  [r |-> IF nReadIndex1 >= size THEN nReadIndex1 - size ELSE nReadIndex1,
         nNumBytes |-> nNumBytes, nResult |-> 0]

\* rlast.data holds the bytes that were stored at the skipped positions.
RingFlush(n) ==
    /\ LET res == ADICircBufFlush(nReadIndex, nWriteIndex, nSize, n)
       IN  /\ nReadIndex' = res.r
           /\ rlast' = [op |-> "Flush", n |-> n, nResult |-> res.nResult,
                        data |-> ReadLoop(pBase, nReadIndex, res.nNumBytes, nSize).data]
    /\ UNCHANGED <<nSize, pBase, nWriteIndex, accepted, delivered, fgVars, isrVars, outVars, editVars, histVars, apiVars, nvmVars>>

\* The k bytes a writer sends next: the stream alternates 1 and 0, so that
\* two neighbouring bytes always differ.
NextBytes(k) == [i \in 1..k |-> (Len(accepted) + i) % 2]

NextSkip ==
    \/ \E k \in 0..MaxReq : RingWrite(NextBytes(k))
    \/ \E n \in 0..MaxReq : Len(delivered) + n <= MaxRing /\ RingRead(n)
    \/ \E n \in 0..MaxReq : RingFlush(n)

SpecSkip == InitRing /\ [][NextSkip]_vars

\* C36: ADICircBufFlush(n), mixed with writes and reads, takes
\* min(n, available) bytes off the available count and adds as many to the
\* free count, keeps available + free = nSize - 4, returns 0, and leaves
\* stored exactly the bytes that followed the skipped ones, in order, so that
\* later reads return them.
C36_FlushSkips ==
    [][rlast'.op = "Flush" =>
         LET avail == ADICircBufGetNumBytesAvailable(nReadIndex, nWriteIndex, nSize)
             space == ADICircBufGetSpaceAvailable(nReadIndex, nWriteIndex, nSize)
             k == IF rlast'.n < avail THEN rlast'.n ELSE avail
         IN  /\ ADICircBufGetNumBytesAvailable(nReadIndex', nWriteIndex', nSize') = avail - k
             /\ ADICircBufGetSpaceAvailable(nReadIndex', nWriteIndex', nSize') = space + k
             /\ avail - k + space + k = nSize - 4
             /\ rlast'.nResult = 0
             /\ Stored = rlast'.data \o Stored'
             /\ Len(rlast'.data) = k]_vars


(***************************************************************************)
(* SpecCase: adi_cli_Dispatch called with the lines of SpecDispatch and    *)
(* with lines whose command name is a built-in name in another letter      *)
(* case, on the tables of SpecDispatch and on a table that has records     *)
(* named "help" and "echo" of its own.                                     *)
(***************************************************************************)
\* "HELP", "Help", "ECHO", "Echo"
CaseNames ==
    {<<72, 69, 76, 80>>, <<72, 101, 108, 112>>, <<69, 67, 72, 79>>, <<69, 99, 104, 111>>}

CaseLines ==
    {name \o JoinArgs(args) :
        name \in CaseNames, args \in UNION {[1..k -> ArgTokens] : k \in 0..1}}

\* "help" (no parameters), "echo" (s)
CaseTable ==
    <<[pName |-> <<104, 101, 108, 112>>, pParamList |-> <<>>, pfFunc |-> "f1", ret |-> 0],
      [pName |-> <<101, 99, 104, 111>>, pParamList |-> <<115>>, pfFunc |-> "f2", ret |-> 0]>>

NextCase ==
    \E null \in {"none", "hCli", "pCommand", "pDispatchTable"} :
        \E pCommand \in DispLines \cup CaseLines :
            \E pDispatchTable \in DispTables \cup {CaseTable} :
                adi_cli_Dispatch(null, pCommand, pDispatchTable)

SpecCase == InitSession(CmdLenLine) /\ [][NextCase]_vars

\* The last adi_cli_Dispatch call got a command name that is a name of
\* internalDispatchTable in another letter case.
CaseVariant ==
    /\ api.call.op = "Dispatch"
    /\ api.call.null # "hCli"
    /\ DispToken.found
    /\ DispToken.tok \notin InternalNames
    /\ \E name \in InternalNames : SameIgnoringCase(DispToken.tok, name)

\* C38: a command name that equals a built-in name up to letter case is
\* handled by the built-in handler, as the lower-case spelling is: the user
\* table is not consulted, so no record of it is dispatched, none of its
\* functions is called and "Command not found" is not reported, whatever the
\* table contains.
C38_CaseBlind ==
    CaseVariant =>
        /\ disp.record = 0
        /\ disp.invoked = <<>>
        /\ \A k \in 1..Len(disp.reported) : disp.reported[k].msg # "Command not found"


\* The number of entries HistoryScrollUp returns one after the other from
\* the browse position of h.
RECURSIVE ScrollUpCount(_)
ScrollUpCount(h) ==
    IF HistoryScrollUp(h).found THEN 1 + ScrollUpCount(HistoryScrollUp(h).h) ELSE 0

\* The entries of the history: those HistoryScrollUp returns from headIndex.
LiveEntries == ScrollUpCount([history EXCEPT !.curIndex = history.headIndex])

\* All calls since the history was empty are appends of pairwise distinct
\* commands that are not empty after trimming.
DistinctAppendsOnly ==
    \A i \in 1..Len(hops) :
        /\ hops[i].op = "Append"
        /\ TrimWhiteSpaces(hops[i].arg) # <<>>
        /\ \A j \in 1..Len(hops) :
              i # j => TrimWhiteSpaces(hops[i].arg) # TrimWhiteSpaces(hops[j].arg)

ADI_NVM_MAX_SIZE == 8
\* pInfo->maxNumBytes
NvmMaxNumBytes == 3
ADI_NVM_STATUS_SUCCESS == 0
ADI_NVM_STATUS_COMM_ERROR == 5
ADI_NVM_STATUS_CRC_MISMATCH == 7
ADI_NVM_STATUS_INVALID_NUM_REGISTERS == 8

NvmByte == {0, 1}

RECURSIVE WeightedSum(_, _)
WeightedSum(data, i) ==
    IF i > Len(data) THEN 0 ELSE i * data[i] + WeightedSum(data, i + 1)

pfCalculateCrc(data, numBytes) == WeightedSum(SubSeq(data, 1, numBytes), 1) % 65536

\* memcpy(&pDst[offset], pSrc, n) on a buffer held as a sequence.
MemCpy(pDst, offset, pSrc, n) ==
    [i \in 1..Len(pDst) |->
        IF offset < i /\ i <= offset + n THEN pSrc[i - offset] ELSE pDst[i]]

\* The while loop of NvmRead from offset on; bytesRemain is numBytes - offset.
RECURSIVE NvmReadLoop(_, _, _, _, _, _)
NvmReadLoop(pData, mem, crcRx, failAt, offset, numBytes) ==
    LET maxChunkData == ADI_NVM_MAX_SIZE - 6
        bytesRemain == numBytes - offset
        chunkSize == IF bytesRemain > maxChunkData THEN maxChunkData ELSE bytesRemain
        rxData == SubSeq(mem, offset + 1, offset + chunkSize)
        tempBuffer == SubSeq(pData, offset + 1, offset + chunkSize)
        copied == MemCpy(pData, offset, rxData, chunkSize)
        expectedCrc == crcRx[1] + 256 * crcRx[2]
    IN  IF bytesRemain <= 0
        THEN [status |-> ADI_NVM_STATUS_SUCCESS, pData |-> pData]
        ELSE IF failAt = offset
        THEN [status |-> ADI_NVM_STATUS_COMM_ERROR, pData |-> pData]
        ELSE IF bytesRemain = chunkSize
        THEN IF pfCalculateCrc(copied, numBytes) # expectedCrc
             THEN [status |-> ADI_NVM_STATUS_CRC_MISMATCH,
                   pData |-> MemCpy(copied, offset, tempBuffer, chunkSize)]
             ELSE [status |-> ADI_NVM_STATUS_SUCCESS, pData |-> copied]
        ELSE NvmReadLoop(copied, mem, crcRx, failAt, offset + chunkSize, numBytes)

\* NvmRead(pInfo, addr, numBytes, pData): the status returned and pData after
\* the call.
NvmRead(numBytes, pData, mem, crcRx, failAt) ==
    IF numBytes > NvmMaxNumBytes \/ numBytes = 0
    THEN [status |-> ADI_NVM_STATUS_INVALID_NUM_REGISTERS, pData |-> pData]
    ELSE NvmReadLoop(pData, mem, crcRx, failAt, 0, numBytes)

\* adi_nvm_Read with a handle: the caller's buffer holds numBytes bytes.
adi_nvm_Read(numBytes, pData, mem, crcRx, failAt) ==
    /\ LET res == NvmRead(numBytes, pData, mem, crcRx, failAt)
       IN  nvm' = [op |-> "Read", numBytes |-> numBytes, orig |-> pData,
                   mem |-> mem, pData |-> res.pData, status |-> res.status]
    /\ UNCHANGED <<ringVars, fgVars, isrVars, outVars, editVars, histVars, apiVars>>

\* The CRC bytes received: those of the stored data, or a low byte that is
\* one off.
CrcBytes(mem) ==
    {<<pfCalculateCrc(mem, Len(mem)) % 256, pfCalculateCrc(mem, Len(mem)) \div 256>>,
     <<(pfCalculateCrc(mem, Len(mem)) + 1) % 256, pfCalculateCrc(mem, Len(mem)) \div 256>>}

NextNvm ==
    \E numBytes \in 0..(NvmMaxNumBytes + 1) :
        \E pData \in [1..numBytes -> NvmByte] : \E mem \in [1..numBytes -> NvmByte] :
            \E crcRx \in CrcBytes(mem) :
                \E failAt \in {-1, 0, ADI_NVM_MAX_SIZE - 6} :
                    adi_nvm_Read(numBytes, pData, mem, crcRx, failAt)

SpecNvm == InitSession(CmdLenEdit) /\ [][NextNvm]_vars

\* C40: when NvmRead returns ADI_NVM_STATUS_CRC_MISMATCH, pData holds in all
\* numBytes positions what it held before the call, also when the read was
\* split into chunks.
C40_MismatchRestores ==
    (nvm.op = "Read" /\ nvm.status = ADI_NVM_STATUS_CRC_MISMATCH) => nvm.pData = nvm.orig

====
